---- MODULE Spec2Model ----
(***************************************************************************)
(* A model of the garbling core of match-compute (fancy-garbling):         *)
(* garble / garble_iter of src/src/garble.rs, the Message stream, and the  *)
(* Garbler, Evaluator, Encoder, Decoder and Circuit they drive.            *)
(*                                                                         *)
(* garble.rs is modelled from its source.  The modules it imports          *)
(* (garble/garbler.rs, garble/evaluator.rs, circuit.rs, wire.rs) are not   *)
(* part of src/; they are modelled from spec.md sections 3, 4 and 6.       *)
(***************************************************************************)
EXTENDS Integers, Sequences, FiniteSets, TLC

(***************************************************************************)
(* Blocks and wire labels (spec.md section 3 and 4.1).                     *)
(*                                                                         *)
(* A Block is a BlockBits-bit value (128 in the program).  A Wire of       *)
(* modulus q is a vector of mod-q digits; it is kept as the number whose   *)
(* base-q digits they are (as_u128), lowest digit first.  For q = 2 the    *)
(* digits are the bits of one Block.                                       *)
(***************************************************************************)
BlockBits == 25

RECURSIVE Pow(_, _)
Pow(b, e) == IF e = 0 THEN 1 ELSE b * Pow(b, e - 1)

BlockMod == Pow(2, BlockBits)

\* a * m modulo 2^BlockBits for a block a, by halves of the block
HalfMod == Pow(2, (BlockBits + 1) \div 2)

MulMod(a, m) ==
    (((a % HalfMod) * m) + ((((a \div HalfMod) * m) % (BlockMod \div HalfMod)) * HalfMod))
        % BlockMod

RECURSIVE CeilLog2(_)
CeilLog2(q) == IF q <= 1 THEN 0 ELSE 1 + CeilLog2((q + 1) \div 2)

\* number of mod-q digits of a wire
NumDigits(q) == IF q = 2 THEN BlockBits ELSE CeilLog2(q)

\* q^NumDigits(q): the number of labels of modulus q
LabelSpace(q) == Pow(q, NumDigits(q))

RECURSIVE DigitsPlus(_, _, _, _)
DigitsPlus(a, b, q, k) ==
    IF k = 0 THEN 0
    ELSE (((a % q) + (b % q)) % q) + q * DigitsPlus(a \div q, b \div q, q, k - 1)

RECURSIVE DigitsNeg(_, _, _)
DigitsNeg(a, q, k) ==
    IF k = 0 THEN 0
    ELSE ((q - (a % q)) % q) + q * DigitsNeg(a \div q, q, k - 1)

RECURSIVE DigitsCmul(_, _, _, _)
DigitsCmul(a, c, q, k) ==
    IF k = 0 THEN 0
    ELSE (((a % q) * (c % q)) % q) + q * DigitsCmul(a \div q, c, q, k - 1)

Wire(q, n) == [q |-> q, n |-> n]

\* Wire::zero
WireZero(q) == Wire(q, 0)

\* Wire::modulus
Modulus(w) == w.q

\* Wire::plus: component-wise mod q
WirePlus(a, b) == Wire(a.q, DigitsPlus(a.n, b.n, a.q, NumDigits(a.q)))

\* Wire::minus: component-wise mod q
WireMinus(a, b) ==
    Wire(a.q, DigitsPlus(a.n, DigitsNeg(b.n, a.q, NumDigits(a.q)), a.q, NumDigits(a.q)))

\* Wire::cmul: component-wise mod q
WireCmul(a, c) == Wire(a.q, DigitsCmul(a.n, c, a.q, NumDigits(a.q)))

\* Wire::color: the lowest digit
Color(a) == a.n % a.q

\* Wire::as_u128
AsBlock(a) == a.n

\* Wire::from_u128: the lowest NumDigits(q) base-q digits of the block
FromBlock(b, q) == Wire(q, b % LabelSpace(q))

\* xor of two blocks
Xor(a, b) == DigitsPlus(a, b, 2, BlockBits)

\* Wire::hash: a permutation of the blocks for every tweak (the multiplier is odd)
Hash(a, tweak) == (MulMod(a.n, 2 * tweak + 5) + (7 * tweak) + (3 * a.q) + 1) % BlockMod

\* Wire::hashback
Hashback(a, tweak, q) == FromBlock(Hash(a, tweak), q)

\* the random number generator of the garbler: the next state of the stream
RngNext(r) == (MulMod(r, 421) + 54773) % BlockMod

\* Wire::rand
WireRand(r, q) == FromBlock(r, q)

\* a fresh delta: a random label whose colour is 1
DeltaRand(r, q) == Wire(q, (r % LabelSpace(q)) - ((r % LabelSpace(q)) % q) + 1)

(***************************************************************************)
(* Messages (src/src/garble.rs, enum Message).                             *)
(***************************************************************************)
UnencodedGarblerInput(zero, delta) ==
    [type |-> "UnencodedGarblerInput", zero |-> zero, delta |-> delta]

UnencodedEvaluatorInput(zero, delta) ==
    [type |-> "UnencodedEvaluatorInput", zero |-> zero, delta |-> delta]

GarblerInputMsg(w) == [type |-> "GarblerInput", wire |-> w]

EvaluatorInputMsg(w) == [type |-> "EvaluatorInput", wire |-> w]

ConstantMsg(value, w) == [type |-> "Constant", value |-> value, wire |-> w]

GarbledGateMsg(g) == [type |-> "GarbledGate", gate |-> g]

OutputCiphertextMsg(c) == [type |-> "OutputCiphertext", c |-> c]

(***************************************************************************)
(* The Garbler (spec.md section 4.2).  A garbler is                        *)
(*   [deltas, current_gate, current_output, rng];                          *)
(* every operation returns the garbler after the call, the zero-label of   *)
(* the new wire and the messages it passed to the send callback.           *)
(***************************************************************************)
GarblerNew(seed) ==
    [deltas |-> << >>, current_gate |-> 0, current_output |-> 0, rng |-> seed]

\* Garbler::delta: the delta of modulus q, created at the first use of q
GbDelta(gb, q) ==
    IF q \in DOMAIN gb.deltas
    THEN [gb |-> gb, d |-> gb.deltas[q]]
    ELSE LET d == DeltaRand(gb.rng, q)
         IN [gb |-> [gb EXCEPT !.deltas = (q :> d) @@ gb.deltas, !.rng = RngNext(gb.rng)],
             d |-> d]

GbRand(gb, q) ==
    [gb |-> [gb EXCEPT !.rng = RngNext(gb.rng)], w |-> WireRand(gb.rng, q)]

GbGarblerInput(gb, q) ==
    LET r == GbRand(gb, q)
        dd == GbDelta(r.gb, q)
    IN [gb |-> dd.gb, w |-> r.w, out |-> <<UnencodedGarblerInput(r.w, dd.d)>>]

GbEvaluatorInput(gb, q) ==
    LET r == GbRand(gb, q)
        dd == GbDelta(r.gb, q)
    IN [gb |-> dd.gb, w |-> r.w, out |-> <<UnencodedEvaluatorInput(r.w, dd.d)>>]

GbConstant(gb, v, q) ==
    LET r == GbRand(gb, q)
        dd == GbDelta(r.gb, q)
    IN [gb |-> dd.gb, w |-> r.w,
        out |-> <<ConstantMsg(v, WirePlus(r.w, WireCmul(dd.d, v)))>>]

GbAdd(gb, x, y) == [gb |-> gb, w |-> WirePlus(x, y), out |-> << >>]

GbSub(gb, x, y) == [gb |-> gb, w |-> WireMinus(x, y), out |-> << >>]

GbCmul(gb, x, c) == [gb |-> gb, w |-> WireCmul(x, c), out |-> << >>]

\* the tweak of the gate with this gate_id, and of the output with this index
GateTweak(gate_id) == gate_id

OutputTweak(i) == i

\* Garbler::proj.  tt[x + 1] is the table's value at x.  The row whose input
\* label has colour 0 is not sent: its hash is the output label itself.
GbProj(gb, A, q_out, tt) ==
    LET q_in == A.q
        g == GateTweak(gb.current_gate)
        din == GbDelta(gb, q_in)
        dout == GbDelta(din.gb, q_out)
        Din == din.d
        Dout == dout.d
        tao == Color(A)
        x0 == (q_in - tao) % q_in
        C == WireMinus(Hashback(WirePlus(A, WireCmul(Din, x0)), g, q_out),
                       WireCmul(Dout, tt[x0 + 1]))
        row(ix) ==
            LET x == (ix + q_in - tao) % q_in
            IN Xor(Hash(WirePlus(A, WireCmul(Din, x)), g),
                   AsBlock(WirePlus(C, WireCmul(Dout, tt[x + 1]))))
    IN [gb |-> [dout.gb EXCEPT !.current_gate = gb.current_gate + 1],
        w |-> C,
        out |-> <<GarbledGateMsg([ix \in 1 .. (q_in - 1) |-> row(ix)])>>]

\* the plaintext of a row of the evaluator half: the label and, for unequal
\* moduli, the value of y lifted into Z_q
PackLift(w, t) == w.n + (LabelSpace(w.q) * t)

\* Garbler::mul (half gates), for A.q >= B.q
GbMulOrdered(gb, A, B) ==
    LET q == A.q
        qb == B.q
        g == GateTweak(gb.current_gate)
        da == GbDelta(gb, q)
        db == GbDelta(da.gb, qb)
        D == da.d
        Db == db.d
        alpha == (q - Color(A)) % q
        beta == (qb - Color(B)) % qb
        r == (q - beta) % q
        X == WirePlus(Hashback(WirePlus(A, WireCmul(D, alpha)), g, q),
                      WireCmul(D, (alpha * r) % q))
        Y == WirePlus(Hashback(WirePlus(B, WireCmul(Db, beta)), g, q),
                      WireCmul(A, (beta + r) % q))
        grow(ix) ==
            LET a == (ix + q - Color(A)) % q
            IN Xor(Hash(WirePlus(A, WireCmul(D, a)), g),
                   AsBlock(WireMinus(X, WireCmul(D, (a * r) % q))))
        erow(ix) ==
            LET b == (ix + qb - Color(B)) % qb
                t == (b + r) % q
                pt == WireMinus(Y, WireCmul(A, t))
            IN Xor(Hash(WirePlus(B, WireCmul(Db, b)), g),
                   IF q = qb THEN AsBlock(pt) ELSE PackLift(pt, t))
    IN [gb |-> [db.gb EXCEPT !.current_gate = gb.current_gate + 1],
        w |-> WirePlus(X, Y),
        out |-> <<GarbledGateMsg(
                    [ix \in 1 .. (q + qb - 2) |->
                        IF ix <= q - 1 THEN grow(ix) ELSE erow(ix - (q - 1))])>>]

\* Garbler::mul: the wire of the larger modulus is the garbler's half
GbMul(gb, A, B) == IF A.q < B.q THEN GbMulOrdered(gb, B, A) ELSE GbMulOrdered(gb, A, B)

\* Garbler::output: one hash per value of the wire
GbOutput(gb, X) ==
    LET q == X.q
        dd == GbDelta(gb, q)
        i == gb.current_output
    IN [gb |-> [dd.gb EXCEPT !.current_output = i + 1],
        out |-> <<OutputCiphertextMsg(
                    [k \in 1 .. q |-> Hash(WirePlus(X, WireCmul(dd.d, k - 1)), OutputTweak(i))])>>]

\* Garbler::get_deltas
GetDeltas(gb) == gb.deltas

(***************************************************************************)
(* The Evaluator (spec.md section 4.2): the label of the new wire from     *)
(* the labels it holds and the garbled gate it received.                   *)
(***************************************************************************)
EvAdd(x, y) == WirePlus(x, y)

EvSub(x, y) == WireMinus(x, y)

EvCmul(x, c) == WireCmul(x, c)

EvProj(x, q_out, gate, gate_id) ==
    LET g == GateTweak(gate_id)
    IN IF Color(x) = 0
       THEN Hashback(x, g, q_out)
       ELSE FromBlock(Xor(gate[Color(x)], Hash(x, g)), q_out)

EvMulOrdered(A, B, gate, gate_id) ==
    LET q == A.q
        qb == B.q
        g == GateTweak(gate_id)
        L == IF Color(A) = 0
             THEN Hashback(A, g, q)
             ELSE FromBlock(Xor(gate[Color(A)], Hash(A, g)), q)
        pt == Xor(gate[q - 1 + Color(B)], Hash(B, g))
        R == IF Color(B) = 0 THEN Hashback(B, g, q) ELSE FromBlock(pt, q)
        t == IF Color(B) = 0 THEN 0
             ELSE IF q = qb THEN Color(B)
             ELSE (pt \div LabelSpace(q)) % q
    IN WirePlus(WirePlus(L, R), WireCmul(A, t))

EvMul(A, B, gate, gate_id) ==
    IF A.q < B.q THEN EvMulOrdered(B, A, gate, gate_id) ELSE EvMulOrdered(A, B, gate, gate_id)

(***************************************************************************)
(* Circuits (spec.md section 3).  A gate is a record                       *)
(*   [kind, q, xref, yref, c, val, tt, id]                                 *)
(* where q is the modulus of the gate's wire (Circuit::modulus), xref and  *)
(* yref point at earlier gates (1-based), and id numbers the inputs of     *)
(* each party and the garbled gates in traversal order.                    *)
(***************************************************************************)
Gate(kind, q, xref, yref, c, val, tt, id) ==
    [kind |-> kind, q |-> q, xref |-> xref, yref |-> yref, c |-> c, val |-> val,
     tt |-> tt, id |-> id]

CountKind(gs, kinds) == Cardinality({i \in DOMAIN gs : gs[i].kind \in kinds})

\* Circuit::num_garbler_inputs, Circuit::num_evaluator_inputs
NumGarblerInputs(gs) == CountKind(gs, {"GarblerInput"})

NumEvaluatorInputs(gs) == CountKind(gs, {"EvaluatorInput"})

\* the index of the k-th gate (1-based) of one of the kinds
RECURSIVE KthOfKind(_, _, _, _)
KthOfKind(gs, kinds, k, from) ==
    IF gs[from].kind \in kinds
    THEN IF k = 1 THEN from ELSE KthOfKind(gs, kinds, k - 1, from + 1)
    ELSE KthOfKind(gs, kinds, k, from + 1)

\* Circuit::garbler_input_mod, Circuit::evaluator_input_mod
GarblerInputMod(gs, k) == gs[KthOfKind(gs, {"GarblerInput"}, k, 1)].q

EvaluatorInputMod(gs, k) == gs[KthOfKind(gs, {"EvaluatorInput"}, k, 1)].q

\* Circuit::eval: the plaintext value of a gate, given the values ws of the wires before it
GateValue(g, ws, gb_inps, ev_inps) ==
    CASE g.kind = "GarblerInput" -> gb_inps[g.id + 1]
      [] g.kind = "EvaluatorInput" -> ev_inps[g.id + 1]
      [] g.kind = "Constant" -> g.val
      [] g.kind = "Add" -> (ws[g.xref] + ws[g.yref]) % g.q
      [] g.kind = "Sub" -> (ws[g.xref] + g.q - ws[g.yref]) % g.q
      [] g.kind = "Cmul" -> (ws[g.xref] * g.c) % g.q
      [] g.kind = "Proj" -> g.tt[ws[g.xref] + 1]
      [] g.kind = "Mul" -> (ws[g.xref] * ws[g.yref]) % g.q

\* Circuit::eval: the loop over the gates lo .. hi, in order, after the wires ws
RECURSIVE PlainRange(_, _, _, _, _, _)
PlainRange(gs, gb_inps, ev_inps, ws, lo, hi) ==
    IF lo > hi THEN ws
    ELSE IF lo = hi THEN Append(ws, GateValue(gs[lo], ws, gb_inps, ev_inps))
    ELSE LET mid == (lo + hi) \div 2
             left == PlainRange(gs, gb_inps, ev_inps, ws, lo, mid)
         IN IF Len(left) = mid THEN PlainRange(gs, gb_inps, ev_inps, left, mid + 1, hi)
            ELSE left

\* Circuit::eval: the plaintext value of the first n wires
PlainWires(gs, gb_inps, ev_inps, n) == PlainRange(gs, gb_inps, ev_inps, << >>, 1, n)

CircuitEval(gs, outs, gb_inps, ev_inps) ==
    LET ws == PlainWires(gs, gb_inps, ev_inps, Len(gs))
    IN [i \in DOMAIN outs |-> ws[outs[i]]]

(***************************************************************************)
(* Encoder, GarbledCircuit and Decoder (spec.md section 4.5).              *)
(***************************************************************************)
\* Encoder::new
EncoderNew(gb_zeros, ev_zeros, deltas) ==
    [garbler_inputs |-> gb_zeros, evaluator_inputs |-> ev_zeros, deltas |-> deltas]

\* Encoder::encode_garbler_inputs, Encoder::encode_evaluator_inputs
EncodeInputs(zeros, deltas, inps) ==
    [i \in DOMAIN inps |->
        WirePlus(zeros[i], WireCmul(deltas[zeros[i].q], inps[i]))]

EncodeGarblerInputs(e, inps) == EncodeInputs(e.garbler_inputs, e.deltas, inps)

EncodeEvaluatorInputs(e, inps) == EncodeInputs(e.evaluator_inputs, e.deltas, inps)

\* GarbledCircuit::new
GarbledCircuitNew(ggates, consts) == [gates |-> ggates, consts |-> consts]

\* GarbledCircuit::size: the number of ciphertexts
RECURSIVE SumLens(_, _)
SumLens(ss, n) == IF n = 0 THEN 0 ELSE Len(ss[n]) + SumLens(ss, n - 1)

GarbledCircuitSize(g) == SumLens(g.gates, Len(g.gates))

\* GarbledCircuit::eval: the label of every wire
RECURSIVE EvalWires(_, _, _, _, _)
EvalWires(g, gs, gb_ws, ev_ws, n) ==
    IF n = 0 THEN << >>
    ELSE LET ws == EvalWires(g, gs, gb_ws, ev_ws, n - 1)
             gt == gs[n]
             w == CASE gt.kind = "GarblerInput" -> gb_ws[gt.id + 1]
                    [] gt.kind = "EvaluatorInput" -> ev_ws[gt.id + 1]
                    [] gt.kind = "Constant" -> g.consts[<<gt.val, gt.q>>]
                    [] gt.kind = "Add" -> EvAdd(ws[gt.xref], ws[gt.yref])
                    [] gt.kind = "Sub" -> EvSub(ws[gt.xref], ws[gt.yref])
                    [] gt.kind = "Cmul" -> EvCmul(ws[gt.xref], gt.c)
                    [] gt.kind = "Proj" ->
                         EvProj(ws[gt.xref], gt.q, g.gates[gt.id + 1], gt.id)
                    [] gt.kind = "Mul" ->
                         EvMul(ws[gt.xref], ws[gt.yref], g.gates[gt.id + 1], gt.id)
         IN Append(ws, w)

GarbledCircuitEval(g, gs, outs, gb_ws, ev_ws) ==
    LET ws == EvalWires(g, gs, gb_ws, ev_ws, Len(gs))
    IN [i \in DOMAIN outs |-> ws[outs[i]]]

\* Decoder::new
DecoderNew(outputs) == [outputs |-> outputs]

\* the values of output i (0-based) that the label decodes to
DecodeMatches(d, i, w) ==
    {v \in 0 .. (Len(d.outputs[i + 1]) - 1) :
        Hash(w, OutputTweak(i)) = d.outputs[i + 1][v + 1]}

Min(S) == CHOOSE x \in S : \A y \in S : x <= y

\* Decoder::decode: the first match of every output, or DecodeFailed
DecoderDecode(d, ws) ==
    IF \E i \in DOMAIN ws : DecodeMatches(d, i - 1, ws[i]) = {}
    THEN [ok |-> FALSE, err |-> "DecodeFailed", values |-> << >>]
    ELSE [ok |-> TRUE, err |-> "",
          values |-> [i \in DOMAIN ws |-> Min(DecodeMatches(d, i - 1, ws[i]))]]

(***************************************************************************)
(* garble (src/src/garble.rs:100-172).                                     *)
(***************************************************************************)
\* the collections the send callback of garble fills, as garble creates them
NoCollected ==
    [garbler_inputs |-> << >>, evaluator_inputs |-> << >>, garbled_gates |-> << >>,
     constants |-> << >>, garbled_outputs |-> << >>]

\* a send_func that files the evaluator's inputs with the garbler's
SendFunc_EvaluatorAsGarbler(st, m) ==
    CASE m.type = "UnencodedGarblerInput" ->
            [st EXCEPT !.garbler_inputs = Append(@, m.zero)]
      [] m.type = "UnencodedEvaluatorInput" ->
            [st EXCEPT !.garbler_inputs = Append(@, m.zero)]
      [] m.type = "GarbledGate" ->
            [st EXCEPT !.garbled_gates = Append(@, m.gate)]
      [] m.type = "OutputCiphertext" ->
            [st EXCEPT !.garbled_outputs = Append(@, m.c)]
      [] m.type = "Constant" ->
            [st EXCEPT !.constants = (<<m.value, Modulus(m.wire)>> :> m.wire) @@ @]

\* a send_func that puts the newest output ciphertext first
SendFunc_OutputsPrepended(st, m) ==
    CASE m.type = "UnencodedGarblerInput" ->
            [st EXCEPT !.garbler_inputs = Append(@, m.zero)]
      [] m.type = "UnencodedEvaluatorInput" ->
            [st EXCEPT !.evaluator_inputs = Append(@, m.zero)]
      [] m.type = "GarbledGate" ->
            [st EXCEPT !.garbled_gates = Append(@, m.gate)]
      [] m.type = "OutputCiphertext" ->
            [st EXCEPT !.garbled_outputs = <<m.c>> \o @]
      [] m.type = "Constant" ->
            [st EXCEPT !.constants = (<<m.value, Modulus(m.wire)>> :> m.wire) @@ @]

\* send_func of garble: file the message under its kind
SendFunc(st, m) ==
    CASE m.type = "UnencodedGarblerInput" ->
            [st EXCEPT !.garbler_inputs = Append(@, m.zero)]
      [] m.type = "UnencodedEvaluatorInput" ->
            [st EXCEPT !.evaluator_inputs = Append(@, m.zero)]
      [] m.type = "GarbledGate" ->
            [st EXCEPT !.garbled_gates = Append(@, m.gate)]
      [] m.type = "OutputCiphertext" ->
            [st EXCEPT !.garbled_outputs = Append(@, m.c)]
      [] m.type = "Constant" ->
            [st EXCEPT !.constants = (<<m.value, Modulus(m.wire)>> :> m.wire) @@ @]

RECURSIVE SendAll(_, _)
SendAll(st, ms) ==
    IF ms = << >> THEN st ELSE SendAll(SendFunc(st, Head(ms)), Tail(ms))

\* a loop body whose Add arm calls mul
GarbleGate_AddAsMul(gb, ws, gate) ==
    CASE gate.kind = "GarblerInput" -> GbGarblerInput(gb, gate.q)
      [] gate.kind = "EvaluatorInput" -> GbEvaluatorInput(gb, gate.q)
      [] gate.kind = "Constant" -> GbConstant(gb, gate.val, gate.q)
      [] gate.kind = "Add" -> GbMul(gb, ws[gate.xref], ws[gate.yref])
      [] gate.kind = "Sub" -> GbSub(gb, ws[gate.xref], ws[gate.yref])
      [] gate.kind = "Cmul" -> GbCmul(gb, ws[gate.xref], gate.c)
      [] gate.kind = "Mul" -> GbMul(gb, ws[gate.xref], ws[gate.yref])
      [] gate.kind = "Proj" -> GbProj(gb, ws[gate.xref], gate.q, gate.tt)

\* a loop body whose Mul arm reads the wire of xref twice
GarbleGate_MulSameWire(gb, ws, gate) ==
    CASE gate.kind = "GarblerInput" -> GbGarblerInput(gb, gate.q)
      [] gate.kind = "EvaluatorInput" -> GbEvaluatorInput(gb, gate.q)
      [] gate.kind = "Constant" -> GbConstant(gb, gate.val, gate.q)
      [] gate.kind = "Add" -> GbAdd(gb, ws[gate.xref], ws[gate.yref])
      [] gate.kind = "Sub" -> GbSub(gb, ws[gate.xref], ws[gate.yref])
      [] gate.kind = "Cmul" -> GbCmul(gb, ws[gate.xref], gate.c)
      [] gate.kind = "Mul" -> GbMul(gb, ws[gate.xref], ws[gate.xref])
      [] gate.kind = "Proj" -> GbProj(gb, ws[gate.xref], gate.q, gate.tt)

\* a loop body whose Mul arm passes the wires of yref and xref in this order
GarbleGate_MulSwapped(gb, ws, gate) ==
    CASE gate.kind = "GarblerInput" -> GbGarblerInput(gb, gate.q)
      [] gate.kind = "EvaluatorInput" -> GbEvaluatorInput(gb, gate.q)
      [] gate.kind = "Constant" -> GbConstant(gb, gate.val, gate.q)
      [] gate.kind = "Add" -> GbAdd(gb, ws[gate.xref], ws[gate.yref])
      [] gate.kind = "Sub" -> GbSub(gb, ws[gate.xref], ws[gate.yref])
      [] gate.kind = "Cmul" -> GbCmul(gb, ws[gate.xref], gate.c)
      [] gate.kind = "Mul" -> GbMul(gb, ws[gate.yref], ws[gate.xref])
      [] gate.kind = "Proj" -> GbProj(gb, ws[gate.xref], gate.q, gate.tt)

\* the body of the loop over the gates: the garbler call made for this gate
GarbleGate(gb, ws, gate) ==
    CASE gate.kind = "GarblerInput" -> GbGarblerInput(gb, gate.q)
      [] gate.kind = "EvaluatorInput" -> GbEvaluatorInput(gb, gate.q)
      [] gate.kind = "Constant" -> GbConstant(gb, gate.val, gate.q)
      [] gate.kind = "Add" -> GbAdd(gb, ws[gate.xref], ws[gate.yref])
      [] gate.kind = "Sub" -> GbSub(gb, ws[gate.xref], ws[gate.yref])
      [] gate.kind = "Cmul" -> GbCmul(gb, ws[gate.xref], gate.c)
      [] gate.kind = "Mul" -> GbMul(gb, ws[gate.xref], ws[gate.yref])
      [] gate.kind = "Proj" -> GbProj(gb, ws[gate.xref], gate.q, gate.tt)

\* an Encoder that is handed an empty delta table
GarbleEncoder_NoDeltas(st, deltas) ==
    EncoderNew(st.garbler_inputs, st.evaluator_inputs, << >>)

\* the Encoder, the GarbledCircuit and the Decoder garble returns
GarbleEncoder(st, deltas) == EncoderNew(st.garbler_inputs, st.evaluator_inputs, deltas)

GarbleGarbledCircuit(st) == GarbledCircuitNew(st.garbled_gates, st.constants)

GarbleDecoder(st) == DecoderNew(st.garbled_outputs)

(***************************************************************************)
(* The bounds of the model.                                                *)
(***************************************************************************)
\* the number of gates of a circuit
MaxGates == 3

\* the moduli of the wires of the circuits that are built gate by gate
Moduli == {2, 3}

\* the constants of the Cmul gates (2 and 5 in the tests of garble.rs)
CmulConsts == {2, 5}

\* the seeds of the garbler's random number generator
Seeds == {0, 77}

\* the truth tables of the Proj gates: the cycle of proj_cycle, and mod_change
Tables(q_in, q_out) ==
    {[k \in 1 .. q_in |-> k % q_out], [k \in 1 .. q_in |-> (k - 1) % q_out]}

\* every assignment of values below the moduli
AllInputs(mods) ==
    {s \in [DOMAIN mods -> 0 .. 15] : \A i \in DOMAIN mods : s[i] < mods[i]}

VARIABLES
    gates,          \* the circuit: its gates
    output_refs,    \* the circuit: its output references
    pc,             \* where the run is
    garbler,        \* the Garbler of garble
    wires,          \* garble: the zero-labels of the gates garbled so far
    msgs,           \* every message passed to the send callback, in order
    collected,      \* garble: the collections the send callback fills
    result,         \* garble: (en, de, ev)
    run,            \* the evaluation: inputs, labels, decoded and plaintext outputs
    test,           \* streaming: the test that runs, its name and its modulus
    gb_thread,      \* garble_iter: the garbler thread and the message it is sending
    chan,           \* garble_iter: the messages queued in the channel
    yielded,        \* garble_iter: every message the iterator returned, in order
    routing,        \* streaming: the positions of the input iterators of recv_func
                    \* and the messages recv_func has returned to the Evaluator
    ev,             \* streaming: the Evaluator
    bundles,        \* gadgets: the bundles of wires the gadget is called on
    ot,             \* oblivious transfer: the sender, the receiver and their stream
    aesrng,         \* AesRng: the generators and the calls of random made on them
    gb_iter,        \* garble_iter: the iterator returned, as its consumer holds it
    server          \* the parallel server: main of run_server and the threads it spawns

vars == <<gates, output_refs, pc, garbler, wires, msgs, collected, result, run,
          test, gb_thread, chan, yielded, routing, ev, bundles, ot, aesrng, gb_iter, server>>

streamVars == <<test, gb_thread, chan, yielded, routing, ev>>

NoGarbler == GarblerNew(0)

\* no oblivious transfer runs, and no AesRng is in use
NoTransfer == [state |-> "none"]
NoAesRng == [state |-> "none"]

NoResult == [en |-> EncoderNew(<< >>, << >>, << >>),
             ev |-> GarbledCircuitNew(<< >>, << >>),
             de |-> DecoderNew(<< >>)]

NoDecoded == [ok |-> FALSE, err |-> "", values |-> << >>]

NoRun == [gb_inps |-> << >>, ev_inps |-> << >>, labels |-> << >>, tampered |-> FALSE,
          decoded |-> NoDecoded, should_be |-> << >>]

NoTest == [name |-> "", Q |-> 0]

NoThread == [state |-> "none", pending |-> << >>]

\* no iterator of garble_iter exists; and the iterator as garble_iter returns it
NoIter == [state |-> "none"]
IterNew == [state |-> "live"]

\* no parallel server runs
NoServer == [state |-> "none"]

NoRouting == [gb_inp_iter |-> 0, ev_inp_iter |-> 0, returned |-> << >>]

NoEvaluator == [state |-> "none", err |-> "", wires |-> << >>, current_gate |-> 0,
                output_cts |-> << >>, output_wires |-> << >>]

\* no streaming is going on
StreamIdle ==
    /\ test = NoTest
    /\ gb_thread = NoThread
    /\ chan = << >>
    /\ yielded = << >>
    /\ routing = NoRouting
    /\ ev = NoEvaluator
    /\ gb_iter = NoIter
    /\ server = NoServer

Init ==
    /\ gates = << >>
    /\ output_refs = << >>
    /\ pc = "build"
    /\ garbler = NoGarbler
    /\ wires = << >>
    /\ msgs = << >>
    /\ collected = NoCollected
    /\ result = NoResult
    /\ run = NoRun
    /\ StreamIdle
    /\ bundles = << >>
    /\ ot = NoTransfer
    /\ aesrng = NoAesRng

garbleVars == <<garbler, wires, msgs, collected, result, run>>

(***************************************************************************)
(* The circuit builder (spec.md section 4.3): appends a gate.              *)
(***************************************************************************)
CanBuild == pc = "build" /\ Len(gates) < MaxGates

Push(g) ==
    /\ gates' = Append(gates, g)
    /\ UNCHANGED <<output_refs, pc, garbleVars, streamVars, bundles, ot, aesrng, gb_iter, server>>

NextGateId == CountKind(gates, {"Proj", "Mul"})

BuildGarblerInput ==
    /\ CanBuild
    /\ \E q \in Moduli :
          Push(Gate("GarblerInput", q, 0, 0, 0, 0, << >>, NumGarblerInputs(gates)))

BuildEvaluatorInput ==
    /\ CanBuild
    /\ \E q \in Moduli :
          Push(Gate("EvaluatorInput", q, 0, 0, 0, 0, << >>, NumEvaluatorInputs(gates)))

BuildConstant ==
    /\ CanBuild
    /\ \E q \in Moduli : \E v \in 0 .. (q - 1) :
          Push(Gate("Constant", q, 0, 0, 0, v, << >>, 0))

BuildAdd ==
    /\ CanBuild
    /\ \E x, y \in DOMAIN gates :
          /\ gates[x].q = gates[y].q
          /\ Push(Gate("Add", gates[x].q, x, y, 0, 0, << >>, 0))

BuildSub ==
    /\ CanBuild
    /\ \E x, y \in DOMAIN gates :
          /\ gates[x].q = gates[y].q
          /\ Push(Gate("Sub", gates[x].q, x, y, 0, 0, << >>, 0))

BuildCmul ==
    /\ CanBuild
    /\ \E x \in DOMAIN gates : \E c \in CmulConsts :
          Push(Gate("Cmul", gates[x].q, x, 0, c, 0, << >>, 0))

BuildProj ==
    /\ CanBuild
    /\ \E x \in DOMAIN gates : \E q \in Moduli : \E tt \in Tables(gates[x].q, q) :
          Push(Gate("Proj", q, x, 0, 0, 0, tt, NextGateId))

BuildMul ==
    /\ CanBuild
    /\ \E x, y \in DOMAIN gates :
          Push(Gate("Mul", IF gates[x].q < gates[y].q THEN gates[y].q ELSE gates[x].q,
                    x, y, 0, 0, << >>, NextGateId))

\* CircuitBuilder::output and finish, then garble starts: Garbler::new
BuildFinish ==
    /\ pc = "build"
    /\ Len(gates) >= 1
    /\ \E refs \in {<<Len(gates)>>, <<Len(gates), 1>>} : output_refs' = refs
    /\ \E seed \in Seeds : garbler' = GarblerNew(seed)
    /\ pc' = "garble"
    /\ UNCHANGED <<gates, wires, msgs, collected, result, run, streamVars, bundles, ot, aesrng, gb_iter, server>>

(***************************************************************************)
(* garble: one iteration of the loop over the gates, for each gate kind.   *)
(***************************************************************************)
AtGate(kind) ==
    /\ pc = "garble"
    /\ Len(wires) < Len(gates)
    /\ gates[Len(wires) + 1].kind = kind

GarbleStep ==
    LET r == GarbleGate(garbler, wires, gates[Len(wires) + 1])
    IN /\ garbler' = r.gb
       /\ wires' = Append(wires, r.w)
       /\ msgs' = msgs \o r.out
       /\ collected' = SendAll(collected, r.out)
       /\ UNCHANGED <<gates, output_refs, pc, result, run, streamVars, bundles, ot, aesrng, gb_iter, server>>

GarbleGarblerInput == AtGate("GarblerInput") /\ GarbleStep

GarbleEvaluatorInput == AtGate("EvaluatorInput") /\ GarbleStep

GarbleConstant == AtGate("Constant") /\ GarbleStep

GarbleAdd == AtGate("Add") /\ GarbleStep

GarbleSub == AtGate("Sub") /\ GarbleStep

GarbleCmul == AtGate("Cmul") /\ GarbleStep

GarbleMul == AtGate("Mul") /\ GarbleStep

GarbleProj == AtGate("Proj") /\ GarbleStep

\* the loop over the output references
GarbleOutput ==
    /\ pc = "garble"
    /\ Len(wires) = Len(gates)
    /\ garbler.current_output < Len(output_refs)
    /\ LET r == GbOutput(garbler, wires[output_refs[garbler.current_output + 1]])
       IN /\ garbler' = r.gb
          /\ msgs' = msgs \o r.out
          /\ collected' = SendAll(collected, r.out)
    /\ UNCHANGED <<gates, output_refs, pc, wires, result, run, streamVars, bundles, ot, aesrng, gb_iter, server>>

\* get_deltas, Encoder::new, GarbledCircuit::new, Decoder::new
GarbleFinish ==
    /\ pc = "garble"
    /\ Len(wires) = Len(gates)
    /\ garbler.current_output = Len(output_refs)
    /\ result' = [en |-> GarbleEncoder(collected, GetDeltas(garbler)),
                  ev |-> GarbleGarbledCircuit(collected),
                  de |-> GarbleDecoder(collected)]
    /\ pc' = "garbled"
    /\ UNCHANGED <<gates, output_refs, garbler, wires, msgs, collected, run, streamVars, bundles, ot, aesrng, gb_iter, server>>

(***************************************************************************)
(* The use garble_test_helper makes of (en, de, ev): encode, eval, decode. *)
(***************************************************************************)
\* an assignment of the inputs with the value v for the input k
OneInput(mods, k, v) == [j \in DOMAIN mods |-> IF j = k THEN v ELSE 0]

GarblerInputMods == [k \in 1 .. NumGarblerInputs(gates) |-> GarblerInputMod(gates, k)]

EvaluatorInputMods == [k \in 1 .. NumEvaluatorInputs(gates) |-> EvaluatorInputMod(gates, k)]

\* ev.eval(c, &[], xs) and c.eval(&[], &inps): the slice of garbler inputs is empty
\* in both calls, so a circuit with a GarblerInput gate finds no input under the
\* index of the gate, and eval panics
Evaluate ==
    /\ pc = "garbled"
    /\ IF NumGarblerInputs(gates) > 0
       THEN /\ run' = [run EXCEPT !.decoded = [NoDecoded EXCEPT !.err = "panic"]]
            /\ pc' = "eval_panicked"
       ELSE /\ \E ei \in AllInputs(EvaluatorInputMods) :
                  run' = [run EXCEPT
                            !.gb_inps = << >>,
                            !.ev_inps = ei,
                            !.labels = GarbledCircuitEval(
                                           result.ev, gates, output_refs, << >>,
                                           EncodeEvaluatorInputs(result.en, ei)),
                            !.should_be = CircuitEval(gates, output_refs, << >>, ei)]
            /\ pc' = "evaluated"
    /\ UNCHANGED <<gates, output_refs, garbler, wires, msgs, collected, result, streamVars, bundles, ot, aesrng, gb_iter, server>>

\* a label that did not come out of the evaluation is handed to the decoder
Tamper ==
    /\ pc = "evaluated"
    /\ ~run.tampered
    /\ \E i \in DOMAIN run.labels :
          run' = [run EXCEPT
                    !.tampered = TRUE,
                    !.labels[i] = WirePlus(@, Wire(@.q, 1))]
    /\ UNCHANGED <<gates, output_refs, pc, garbler, wires, msgs, collected, result, streamVars, bundles, ot, aesrng, gb_iter, server>>

Decode ==
    /\ pc = "evaluated"
    /\ run' = [run EXCEPT !.decoded = DecoderDecode(result.de, run.labels)]
    /\ pc' = "decoded"
    /\ UNCHANGED <<gates, output_refs, garbler, wires, msgs, collected, result, streamVars, bundles, ot, aesrng, gb_iter, server>>

Next ==
    \/ BuildGarblerInput
    \/ BuildEvaluatorInput
    \/ BuildConstant
    \/ BuildAdd
    \/ BuildSub
    \/ BuildCmul
    \/ BuildProj
    \/ BuildMul
    \/ BuildFinish
    \/ GarbleGarblerInput
    \/ GarbleEvaluatorInput
    \/ GarbleConstant
    \/ GarbleAdd
    \/ GarbleSub
    \/ GarbleCmul
    \/ GarbleMul
    \/ GarbleProj
    \/ GarbleOutput
    \/ GarbleFinish
    \/ Evaluate
    \/ Tamper
    \/ Decode

Spec == Init /\ [][Next]_vars

(***************************************************************************)
(* Properties of garble.                                                   *)
(***************************************************************************)
Garbled == pc \in {"garbled", "evaluated", "decoded"}

MsgsOfType(t) == SelectSeq(msgs, LAMBDA m : m.type = t)

\* no two Constant gates of the circuit carry the same value and modulus
DistinctConstants ==
    \A i, j \in DOMAIN gates :
        (/\ i < j
         /\ gates[i].kind = "Constant"
         /\ gates[j].kind = "Constant"
         /\ gates[i].q = gates[j].q)
        => gates[i].val # gates[j].val

\* C1: for every circuit and every assignment of the inputs, decoding the labels
\* that evaluating the garbled circuit on the encoded inputs gives yields the
\* outputs of the plaintext evaluation of the circuit.
C1_GarbleCorrect ==
    (pc = "decoded" /\ ~run.tampered)
    => (run.decoded.ok /\ run.decoded.values = run.should_be)

\* The same, for the circuits in which no constant (v, q) has two Constant gates.
GarbleCorrectDistinctConstants ==
    (pc = "decoded" /\ ~run.tampered /\ DistinctConstants)
    => (run.decoded.ok /\ run.decoded.values = run.should_be)

\* a circuit with a GarblerInput gate is garbled, and its evaluation with the empty
\* slice of garbler inputs panics: nothing is decoded
EvalPanicked ==
    /\ pc = "eval_panicked"
    /\ NumGarblerInputs(gates) > 0
    /\ run.decoded.err = "panic"
    /\ run.labels = << >>

\* what is evaluated has no GarblerInput gate, and is evaluated with no garbler input
EvaluatedWithoutGarblerInputs ==
    pc \in {"evaluated", "decoded"} => (NumGarblerInputs(gates) = 0 /\ run.gb_inps = << >>)

\* the gates garbled so far
GarbledPrefix == SubSeq(gates, 1, Len(wires))

\* the zero-labels of the gates of a kind, in traversal order
ZerosOfKind(kind) ==
    LET n == CountKind(GarbledPrefix, {kind})
    IN [k \in 1 .. n |-> wires[KthOfKind(GarbledPrefix, {kind}, k, 1)]]

\* C5: the message stream holds one UnencodedGarblerInput per GarblerInput gate
\* and one UnencodedEvaluatorInput per EvaluatorInput gate, in traversal order,
\* one GarbledGate per Proj or Mul gate and one OutputCiphertext per output
\* reference; the Encoder, the GarbledCircuit and the Decoder that garble
\* returns have those lengths.
C5_OneMessagePerGate ==
    /\ [k \in DOMAIN MsgsOfType("UnencodedGarblerInput") |->
            MsgsOfType("UnencodedGarblerInput")[k].zero] = ZerosOfKind("GarblerInput")
    /\ [k \in DOMAIN MsgsOfType("UnencodedEvaluatorInput") |->
            MsgsOfType("UnencodedEvaluatorInput")[k].zero] = ZerosOfKind("EvaluatorInput")
    /\ Len(MsgsOfType("GarbledGate")) = CountKind(GarbledPrefix, {"Proj", "Mul"})
    /\ Len(MsgsOfType("OutputCiphertext")) = garbler.current_output
    /\ Garbled =>
          /\ Len(wires) = Len(gates)
          /\ Len(MsgsOfType("OutputCiphertext")) = Len(output_refs)
          /\ result.en.garbler_inputs = ZerosOfKind("GarblerInput")
          /\ result.en.evaluator_inputs = ZerosOfKind("EvaluatorInput")
          /\ Len(result.en.garbler_inputs) = NumGarblerInputs(gates)
          /\ Len(result.en.evaluator_inputs) = NumEvaluatorInputs(gates)
          /\ Len(result.ev.gates) = CountKind(gates, {"Proj", "Mul"})
          /\ Len(result.de.outputs) = Len(output_refs)

C5_Witness ==
    /\ pc = "garbled"
    /\ NumGarblerInputs(gates) = 1
    /\ NumEvaluatorInputs(gates) = 1
    /\ CountKind(gates, {"Proj", "Mul"}) = 1
    /\ Len(output_refs) = 2

\* C6: garbling an Add, Sub or Cmul gate sends no message: the stream and the
\* collections of garble are unchanged, the garbler is unchanged, and one
\* zero-label is added to the wires.
C6_FreeGatesSendNothing ==
    [][(AtGate("Add") \/ AtGate("Sub") \/ AtGate("Cmul"))
        => /\ msgs' = msgs
           /\ collected' = collected
           /\ garbler' = garbler
           /\ Len(wires') = Len(wires) + 1
           /\ SubSeq(wires', 1, Len(wires)) = wires]_vars

C6_Witness ==
    /\ pc = "garble"
    /\ Len(wires) = 3
    /\ gates[3].kind \in {"Add", "Sub", "Cmul"}
    /\ gates[2].kind \in {"Proj", "Mul"}
    /\ Len(msgs) = 2

\* the moduli of the wires that the gate with this index reads
GateInputModuli(i) ==
    IF gates[i].kind = "Proj" THEN <<gates[gates[i].xref].q>>
    ELSE <<gates[gates[i].xref].q, gates[gates[i].yref].q>>

\* C7: the GarbledGate sent for a Proj whose input has modulus q holds q - 1
\* ciphertexts, and the one sent for a Mul with moduli (qx, qy) holds
\* qx + qy - 2 ciphertexts.
C7_CiphertextCounts ==
    \A k \in DOMAIN MsgsOfType("GarbledGate") :
        LET i == KthOfKind(gates, {"Proj", "Mul"}, k, 1)
            n == Len(MsgsOfType("GarbledGate")[k].gate)
            qs == GateInputModuli(i)
        IN IF gates[i].kind = "Proj"
           THEN n = qs[1] - 1
           ELSE n = qs[1] + qs[2] - 2

\* the hashes that were sent for output i (0-based)
SentOutput(i) == MsgsOfType("OutputCiphertext")[i + 1].c

\* C10: decode returns for every output i the value v with
\* hash(labels[i], i) = stored[i][v]; when some output has no such value, it
\* fails with DecodeFailed and returns no value.
C10_Decode ==
    pc = "decoded" =>
        IF \A i \in DOMAIN run.labels :
              \E v \in 0 .. (run.labels[i].q - 1) :
                  Hash(run.labels[i], OutputTweak(i - 1)) = SentOutput(i - 1)[v + 1]
        THEN /\ run.decoded.ok
             /\ Len(run.decoded.values) = Len(output_refs)
             /\ \A i \in DOMAIN run.labels :
                   /\ run.decoded.values[i] \in 0 .. (run.labels[i].q - 1)
                   /\ Hash(run.labels[i], OutputTweak(i - 1))
                        = SentOutput(i - 1)[run.decoded.values[i] + 1]
        ELSE /\ ~run.decoded.ok
             /\ run.decoded.err = "DecodeFailed"
             /\ run.decoded.values = << >>

\* one output of two has no match: the decoding fails as a whole
C10_Witness ==
    /\ pc = "decoded"
    /\ run.tampered
    /\ Len(run.labels) = 2
    /\ ~run.decoded.ok
    /\ \E i \in DOMAIN run.labels :
          \E v \in 0 .. (run.labels[i].q - 1) :
              Hash(run.labels[i], OutputTweak(i - 1)) = SentOutput(i - 1)[v + 1]

(***************************************************************************)
(* The circuits of the tests of garble.rs, with the moduli the tests use.  *)
(***************************************************************************)
\* classic::half_gate_unequal_mods: q in 3..16, ymod = 2 + rand % 6
HalfGateUnequalMods(q, ymod) ==
    <<Gate("EvaluatorInput", q, 0, 0, 0, 0, << >>, 0),
      Gate("EvaluatorInput", ymod, 0, 0, 0, 0, << >>, 1),
      Gate("Mul", IF q < ymod THEN ymod ELSE q, 1, 2, 0, 0, << >>, 0)>>

\* classic::proj_cycle, for the prime q
ProjCycle(q) ==
    <<Gate("EvaluatorInput", q, 0, 0, 0, 0, << >>, 0),
      Gate("EvaluatorInput", q, 0, 0, 0, 0, << >>, 1),
      Gate("Proj", q, 1, 0, 0, 0, [k \in 1 .. q |-> k % q], 0)>>

TestPrimes == {2, 3, 5, 7, 11, 13}

TestCircuits ==
    {HalfGateUnequalMods(q, ymod) : q \in 3 .. 15, ymod \in 2 .. 7}
        \cup {ProjCycle(q) : q \in TestPrimes}

\* the test has built its circuit and calls garble
InitTests ==
    /\ gates \in TestCircuits
    /\ output_refs = <<3>>
    /\ pc = "garble"
    /\ garbler \in {GarblerNew(seed) : seed \in Seeds}
    /\ wires = << >>
    /\ msgs = << >>
    /\ collected = NoCollected
    /\ result = NoResult
    /\ run = NoRun
    /\ StreamIdle
    /\ bundles = << >>
    /\ ot = NoTransfer
    /\ aesrng = NoAesRng

NextTests ==
    \/ GarbleEvaluatorInput
    \/ GarbleMul
    \/ GarbleProj
    \/ GarbleOutput
    \/ GarbleFinish
    \/ Evaluate
    \/ Decode

SpecTests == InitTests /\ [][NextTests]_vars

\* C7 (witness): a Mul with moduli 7 and 5 has been garbled into 10 ciphertexts
C7_Witness ==
    /\ Garbled
    /\ gates[3].kind = "Mul"
    /\ GateInputModuli(3) = <<7, 5>>
    /\ Len(msgs[3].gate) = 10
    /\ GarbledCircuitSize(result.ev) = 10

\* C8: for a Mul over moduli qx in 3..15 and qy in 2..7 with qy <= qx and all
\* x < qx, y < qy: garbling, evaluating and decoding gives x * y mod qx, which is
\* what the plaintext circuit gives, and the output wire has modulus qx.
C8_HalfGateUnequalMods ==
    (/\ pc = "decoded"
     /\ gates[3].kind = "Mul"
     /\ gates[2].q <= gates[1].q)
    => /\ run.decoded.ok
       /\ run.decoded.values = <<(run.ev_inps[1] * run.ev_inps[2]) % gates[1].q>>
       /\ run.should_be = run.decoded.values
       /\ Modulus(wires[3]) = gates[1].q
       /\ Modulus(run.labels[1]) = gates[1].q

C8_Witness ==
    /\ pc = "decoded"
    /\ gates[3].kind = "Mul"
    /\ gates[1].q = 7
    /\ gates[2].q = 5
    /\ run.ev_inps = <<6, 4>>
    /\ run.decoded.values = <<3>>

(***************************************************************************)
(* Streaming (src/src/garble.rs: garble_iter, and the tests of the module  *)
(* streaming).  A fancy computation is the sequence of the calls it makes  *)
(* on the Fancy interface, written as gates, followed by its outputs.      *)
(***************************************************************************)
\* the capacity of the channel: sync_channel(20)
ChannelCapacity == 20

\* the moduli the streaming tests run with, in the place of Q
StreamModuli == {2, 3, 5, 7}

\* the number of inputs of the computation that sums many inputs
MaxStreamInputs == 22

Computation(gs, outs) == [gates |-> gs, outs |-> outs]

fancy_addition(Q) ==
    Computation(<<Gate("GarblerInput", Q, 0, 0, 0, 0, << >>, 0),
                  Gate("EvaluatorInput", Q, 0, 0, 0, 0, << >>, 0),
                  Gate("Add", Q, 1, 2, 0, 0, << >>, 0)>>, <<3>>)

fancy_subtraction(Q) ==
    Computation(<<Gate("GarblerInput", Q, 0, 0, 0, 0, << >>, 0),
                  Gate("EvaluatorInput", Q, 0, 0, 0, 0, << >>, 0),
                  Gate("Sub", Q, 1, 2, 0, 0, << >>, 0)>>, <<3>>)

fancy_multiplication(Q) ==
    Computation(<<Gate("GarblerInput", Q, 0, 0, 0, 0, << >>, 0),
                  Gate("EvaluatorInput", Q, 0, 0, 0, 0, << >>, 0),
                  Gate("Mul", Q, 1, 2, 0, 0, << >>, 0)>>, <<3>>)

fancy_cmul(Q) ==
    Computation(<<Gate("GarblerInput", Q, 0, 0, 0, 0, << >>, 0),
                  Gate("Cmul", Q, 1, 0, 5, 0, << >>, 0)>>, <<2>>)

\* tab is (0..Q).map(|i| (i + 1) % Q): its entry for i is at index i + 1
fancy_projection(Q) ==
    Computation(<<Gate("GarblerInput", Q, 0, 0, 0, 0, << >>, 0),
                  Gate("Proj", Q, 1, 0, 0, 0, [k \in 1 .. Q |-> k % Q], 0)>>, <<2>>)

\* garbler_inputs(n, q), add_many and output; add_many asserts args.len() > 1, so with
\* fewer than two inputs the computation panics after the inputs and outputs nothing
fancy_add_many(n, q) ==
    IF n > 1
    THEN Computation([i \in 1 .. ((2 * n) - 1) |->
                         IF i <= n THEN Gate("GarblerInput", q, 0, 0, 0, 0, << >>, i - 1)
                         ELSE IF i = n + 1 THEN Gate("Add", q, 1, 2, 0, 0, << >>, 0)
                         ELSE Gate("Add", q, i - 1, i - n + 1, 0, 0, << >>, 0)],
                     <<(2 * n) - 1>>)
    ELSE Computation([i \in 1 .. n |-> Gate("GarblerInput", q, 0, 0, 0, 0, << >>, i - 1)],
                     "panic")

RECURSIVE SumSeq(_, _)
SumSeq(xs, n) == IF n = 0 THEN 0 ELSE xs[n] + SumSeq(xs, n - 1)

StreamingTest(name, Q, comp, gb_inps, ev_inps, should_be) ==
    [name |-> name, Q |-> Q, comp |-> comp, gb_inps |-> gb_inps, ev_inps |-> ev_inps,
     should_be |-> should_be]

\* the calls of streaming_test: addition, subtraction, multiplication, cmul and
\* proj, with every input below the modulus; and the sum of many inputs
StreamingTests ==
    UNION {
        {StreamingTest("addition", Q, fancy_addition(Q), <<x>>, <<y>>,
                       <<(x + y) % Q>>) :
            x \in 0 .. (Q - 1), y \in 0 .. (Q - 1)}
        \cup {StreamingTest("subtraction", Q, fancy_subtraction(Q), <<x>>, <<y>>,
                            <<((Q + x) - y) % Q>>) :
            x \in 0 .. (Q - 1), y \in 0 .. (Q - 1)}
        \cup {StreamingTest("multiplication", Q, fancy_multiplication(Q), <<x>>, <<y>>,
                            <<(x * y) % Q>>) :
            x \in 0 .. (Q - 1), y \in 0 .. (Q - 1)}
        \cup {StreamingTest("cmul", Q, fancy_cmul(Q), <<x>>, << >>, <<(x * 5) % Q>>) :
            x \in 0 .. (Q - 1)}
        \cup {StreamingTest("proj", Q, fancy_projection(Q), <<x>>, << >>,
                            <<(x + 1) % Q>>) :
            x \in 0 .. (Q - 1)}
        : Q \in StreamModuli}
    \cup {LET xs == [i \in 1 .. MaxStreamInputs |-> i % q]
          IN StreamingTest("add_many", q, fancy_add_many(MaxStreamInputs, q), xs, << >>,
                           <<SumSeq(xs, MaxStreamInputs) % q>>) :
            q \in {2, 3}}

\* a computation with three gates that use a tweak: x * y, that plus one, and the
\* product of the two
fancy_mul_proj_mul(Q) ==
    Computation(<<Gate("GarblerInput", Q, 0, 0, 0, 0, << >>, 0),
                  Gate("EvaluatorInput", Q, 0, 0, 0, 0, << >>, 0),
                  Gate("Mul", Q, 1, 2, 0, 0, << >>, 0),
                  Gate("Proj", Q, 3, 0, 0, 0, [k \in 1 .. Q |-> k % Q], 1),
                  Gate("Mul", Q, 3, 4, 0, 0, << >>, 2)>>, <<5>>)

\* the moduli the computation of three tweaks runs with
TweakModuli == {2, 3}

TweakTests ==
    UNION {
        {StreamingTest("mul_proj_mul", Q, fancy_mul_proj_mul(Q), <<x>>, <<y>>,
                       <<((x * y) * (((x * y) + 1) % Q)) % Q>>) :
            x \in 0 .. (Q - 1), y \in 0 .. (Q - 1)}
        : Q \in TweakModuli}

\* a channel whose slots are not freed when a message is taken from it
CanSend_SlotsNotFreed(ch) == Len(yielded) + Len(ch) < ChannelCapacity

\* a channel without a bound: a send always completes
CanSend_Unbounded(ch) == Len(ch) >= 0

\* sync_channel: a send completes while fewer than the capacity are queued
CanSend(ch) == Len(ch) < ChannelCapacity

\* a send that waits, and does not fail, when the Receiver has been dropped
sender_send_Blocks(ch, it) ==
    IF it.state # "dropped" /\ CanSend(ch) THEN "Ok" ELSE "blocked"

\* sender.send(m): Err when the Receiver has been dropped, Ok when a slot is free,
\* and the thread stays in send otherwise
sender_send(ch, it) ==
    IF it.state = "dropped" THEN "Err"
    ELSE IF CanSend(ch) THEN "Ok" ELSE "blocked"

\* the message of the panic of send_func
SendExpect == "garble_iter thread could not send message to iterator"

\* an iterator that returns the newest message of the channel
IterNext_Newest(ch) == [m |-> ch[Len(ch)], rest |-> SubSeq(ch, 1, Len(ch) - 1)]

\* receiver.into_iter(): next returns the oldest message of the channel
IterNext(ch) == [m |-> Head(ch), rest |-> Tail(ch)]

\* a recv_func that passes the zero-label of an input on
recv_func_Zero(m, it, gb_inp, ev_inp) ==
    CASE m.type = "UnencodedGarblerInput" ->
            IF it.gb_inp_iter >= Len(gb_inp)
            THEN [panic |-> "not enough garbler inputs!", m |-> m, it |-> it]
            ELSE [panic |-> "",
                  m |-> GarblerInputMsg(m.zero),
                  it |-> [it EXCEPT !.gb_inp_iter = @ + 1]]
      [] m.type = "UnencodedEvaluatorInput" ->
            IF it.ev_inp_iter >= Len(ev_inp)
            THEN [panic |-> "not enough evaluator inputs!", m |-> m, it |-> it]
            ELSE [panic |-> "",
                  m |-> EvaluatorInputMsg(m.zero),
                  it |-> [it EXCEPT !.ev_inp_iter = @ + 1]]
      [] OTHER -> [panic |-> "", m |-> m, it |-> it]

\* a recv_func that takes the value of a garbler input from the evaluator's
\* inputs and the value of an evaluator input from the garbler's
recv_func_Swapped(m, it, gb_inp, ev_inp) ==
    CASE m.type = "UnencodedGarblerInput" ->
            IF it.ev_inp_iter >= Len(ev_inp)
            THEN [panic |-> "not enough garbler inputs!", m |-> m, it |-> it]
            ELSE [panic |-> "",
                  m |-> GarblerInputMsg(
                          WirePlus(m.zero, WireCmul(m.delta, ev_inp[it.ev_inp_iter + 1]))),
                  it |-> [it EXCEPT !.ev_inp_iter = @ + 1]]
      [] m.type = "UnencodedEvaluatorInput" ->
            IF it.gb_inp_iter >= Len(gb_inp)
            THEN [panic |-> "not enough evaluator inputs!", m |-> m, it |-> it]
            ELSE [panic |-> "",
                  m |-> EvaluatorInputMsg(
                          WirePlus(m.zero, WireCmul(m.delta, gb_inp[it.gb_inp_iter + 1]))),
                  it |-> [it EXCEPT !.gb_inp_iter = @ + 1]]
      [] OTHER -> [panic |-> "", m |-> m, it |-> it]

\* recv_func of streaming_test, the input-routing layer: encodes the next
\* input of the party the message is for, and passes every other message on
recv_func(m, it, gb_inp, ev_inp) ==
    CASE m.type = "UnencodedGarblerInput" ->
            IF it.gb_inp_iter >= Len(gb_inp)
            THEN [panic |-> "not enough garbler inputs!", m |-> m, it |-> it]
            ELSE [panic |-> "",
                  m |-> GarblerInputMsg(
                          WirePlus(m.zero, WireCmul(m.delta, gb_inp[it.gb_inp_iter + 1]))),
                  it |-> [it EXCEPT !.gb_inp_iter = @ + 1]]
      [] m.type = "UnencodedEvaluatorInput" ->
            IF it.ev_inp_iter >= Len(ev_inp)
            THEN [panic |-> "not enough evaluator inputs!", m |-> m, it |-> it]
            ELSE [panic |-> "",
                  m |-> EvaluatorInputMsg(
                          WirePlus(m.zero, WireCmul(m.delta, ev_inp[it.ev_inp_iter + 1]))),
                  it |-> [it EXCEPT !.ev_inp_iter = @ + 1]]
      [] OTHER -> [panic |-> "", m |-> m, it |-> it]

(***************************************************************************)
(* The streaming Evaluator (spec.md sections 4.2 and 4.3): it mirrors the  *)
(* garbler's order and takes one message for each call that needs one.     *)
(***************************************************************************)
EvaluatorNew ==
    [state |-> "running", err |-> "", wires |-> << >>, current_gate |-> 0,
     output_cts |-> << >>, output_wires |-> << >>]

\* the kind of message a call of this kind takes
ExpectedMessage(kind) ==
    CASE kind = "GarblerInput" -> "GarblerInput"
      [] kind = "EvaluatorInput" -> "EvaluatorInput"
      [] kind = "Constant" -> "Constant"
      [] kind \in {"Proj", "Mul"} -> "GarbledGate"
      [] kind = "Output" -> "OutputCiphertext"
      [] OTHER -> ""

ProtocolError(e) == [e EXCEPT !.state = "failed", !.err = "ProtocolError"]

\* an Evaluator whose mul leaves the gate counter as it is
EvaluatorRecvCall_MulKeepsId(e, gate, m) ==
    IF m.type # ExpectedMessage(gate.kind) THEN ProtocolError(e)
    ELSE CASE gate.kind \in {"GarblerInput", "EvaluatorInput", "Constant"} ->
                [e EXCEPT !.wires = Append(@, m.wire)]
           [] gate.kind = "Proj" ->
                [e EXCEPT !.wires = Append(@, EvProj(e.wires[gate.xref], gate.q, m.gate,
                                                     e.current_gate)),
                          !.current_gate = @ + 1]
           [] gate.kind = "Mul" ->
                [e EXCEPT !.wires = Append(@, EvMul(e.wires[gate.xref], e.wires[gate.yref],
                                                    m.gate, e.current_gate))]

\* a call that takes a message: garbler_input, evaluator_input, constant, proj, mul
EvaluatorRecvCall(e, gate, m) ==
    IF m.type # ExpectedMessage(gate.kind) THEN ProtocolError(e)
    ELSE CASE gate.kind \in {"GarblerInput", "EvaluatorInput", "Constant"} ->
                [e EXCEPT !.wires = Append(@, m.wire)]
           [] gate.kind = "Proj" ->
                [e EXCEPT !.wires = Append(@, EvProj(e.wires[gate.xref], gate.q, m.gate,
                                                     e.current_gate)),
                          !.current_gate = @ + 1]
           [] gate.kind = "Mul" ->
                [e EXCEPT !.wires = Append(@, EvMul(e.wires[gate.xref], e.wires[gate.yref],
                                                    m.gate, e.current_gate)),
                          !.current_gate = @ + 1]

\* a call that takes no message: add, sub, cmul
EvaluatorFreeCall(e, gate) ==
    CASE gate.kind = "Add" ->
            [e EXCEPT !.wires = Append(@, EvAdd(e.wires[gate.xref], e.wires[gate.yref]))]
      [] gate.kind = "Sub" ->
            [e EXCEPT !.wires = Append(@, EvSub(e.wires[gate.xref], e.wires[gate.yref]))]
      [] gate.kind = "Cmul" ->
            [e EXCEPT !.wires = Append(@, EvCmul(e.wires[gate.xref], gate.c))]

\* Evaluator::output: keeps the label and the ciphertexts it received
EvaluatorOutputCall(e, x, m) ==
    IF m.type # ExpectedMessage("Output") THEN ProtocolError(e)
    ELSE [e EXCEPT !.output_cts = Append(@, m.c), !.output_wires = Append(@, x)]

\* Evaluator::decode_output
EvaluatorDecodeOutput(e) == DecoderDecode(DecoderNew(e.output_cts), e.output_wires)

\* calls of streaming_test with an input too few: no garbler input, or no evaluator
\* input, for a computation that takes one of each; and no garbler input, or one, for
\* the sum of many, whose messages fill the channel
ShortInputTests ==
    UNION {
        {StreamingTest("addition", Q, fancy_addition(Q), << >>, <<1>>, <<1>>),
         StreamingTest("addition", Q, fancy_addition(Q), <<1>>, << >>, <<1>>)} :
        Q \in StreamModuli}
    \cup {StreamingTest("add_many", 2, fancy_add_many(MaxStreamInputs, 2), inps, << >>,
                       <<0>>) : inps \in {<< >>, <<1>>}}

InitStream ==
    \E t \in StreamingTests \cup TweakTests \cup ShortInputTests :
        /\ test = [name |-> t.name, Q |-> t.Q]
        /\ gates = t.comp.gates
        /\ output_refs = t.comp.outs
        /\ pc = "stream"
        /\ garbler \in {GarblerNew(seed) : seed \in Seeds}
        /\ wires = << >>
        /\ msgs = << >>
        /\ collected = NoCollected
        /\ result = NoResult
        /\ run = [NoRun EXCEPT !.gb_inps = t.gb_inps, !.ev_inps = t.ev_inps,
                               !.should_be = t.should_be]
        /\ gb_thread = [state |-> "running", pending |-> << >>]
        /\ chan = << >>
        /\ yielded = << >>
        /\ routing = NoRouting
        /\ ev = EvaluatorNew
        /\ gb_iter = IterNew
        /\ server = NoServer
        /\ bundles = << >>
        /\ ot = NoTransfer
        /\ aesrng = NoAesRng
    /\ ot = NoTransfer
    /\ aesrng = NoAesRng

\* the garbler thread after a call that passed the messages out to send_func
AfterCall(out) ==
    IF out = << >> THEN gb_thread ELSE [state |-> "sending", pending |-> out]

\* the garbler thread: the next call of the fancy computation on the Garbler
GarblerCall ==
    /\ pc = "stream"
    /\ gb_thread.state = "running"
    /\ Len(wires) < Len(gates)
    /\ LET r == GarbleGate(garbler, wires, gates[Len(wires) + 1])
       IN /\ garbler' = r.gb
          /\ wires' = Append(wires, r.w)
          /\ msgs' = msgs \o r.out
          /\ gb_thread' = AfterCall(r.out)
    /\ UNCHANGED <<gates, output_refs, pc, collected, result, run, test, chan, yielded,
                   routing, ev, bundles, ot, aesrng, gb_iter, server>>

\* the garbler thread: the next call of output
GarblerOutputCall ==
    /\ pc = "stream"
    /\ gb_thread.state = "running"
    /\ Len(wires) = Len(gates)
    /\ garbler.current_output < Len(output_refs)
    /\ LET r == GbOutput(garbler, wires[output_refs[garbler.current_output + 1]])
       IN /\ garbler' = r.gb
          /\ msgs' = msgs \o r.out
          /\ gb_thread' = AfterCall(r.out)
    /\ UNCHANGED <<gates, output_refs, pc, wires, collected, result, run, test, chan,
                   yielded, routing, ev, bundles, ot, aesrng, gb_iter, server>>

\* the garbler thread: sender.send(m) completes
ChannelSend ==
    /\ pc = "stream"
    /\ gb_thread.state = "sending"
    /\ sender_send(chan, gb_iter) = "Ok"
    /\ chan' = Append(chan, gb_thread.pending[1])
    /\ gb_thread' = [state |-> "running", pending |-> << >>]
    /\ UNCHANGED <<gates, output_refs, pc, garbler, wires, msgs, collected, result, run,
                   test, yielded, routing, ev, bundles, ot, aesrng, gb_iter, server>>

\* the garbler thread: fancy_computation returns and the sender is dropped
GarblerThreadExit ==
    /\ pc \in {"stream", "stream_decoded"}
    /\ gb_thread.state = "running"
    /\ Len(wires) = Len(gates)
    /\ garbler.current_output = Len(output_refs)
    /\ gb_thread' = [state |-> "done", pending |-> << >>]
    /\ UNCHANGED <<gates, output_refs, pc, garbler, wires, msgs, collected, result, run,
                   test, chan, yielded, routing, ev, bundles, ot, aesrng, gb_iter, server>>

\* the evaluator's next call is on a gate that takes a message
EvaluatorAtRecv ==
    /\ pc = "stream"
    /\ ev.state = "running"
    /\ Len(ev.wires) < Len(gates)
    /\ ExpectedMessage(gates[Len(ev.wires) + 1].kind) # ""

\* the evaluator: a call that pulls a message through recv_func.  gb_iter.next() takes
\* the message from the channel first; when no input value is left for it, expect
\* panics after that, and the evaluator has failed
EvaluatorRecv ==
    /\ EvaluatorAtRecv
    /\ chan # << >>
    /\ LET nx == IterNext(chan)
           rr == recv_func(nx.m, routing, run.gb_inps, run.ev_inps)
       IN /\ chan' = nx.rest
          /\ yielded' = Append(yielded, nx.m)
          /\ routing' = IF rr.panic # "" THEN rr.it
                         ELSE [rr.it EXCEPT !.returned = Append(@, rr.m)]
          /\ ev' = IF rr.panic # "" THEN [ev EXCEPT !.state = "failed", !.err = rr.panic]
                   ELSE EvaluatorRecvCall(ev, gates[Len(ev.wires) + 1], rr.m)
    /\ UNCHANGED <<gates, output_refs, pc, garbler, wires, msgs, collected, result, run,
                   test, gb_thread, bundles, ot, aesrng, gb_iter, server>>

\* the evaluator: add, sub or cmul
EvaluatorFree ==
    /\ pc = "stream"
    /\ ev.state = "running"
    /\ Len(ev.wires) < Len(gates)
    /\ ExpectedMessage(gates[Len(ev.wires) + 1].kind) = ""
    /\ ev' = EvaluatorFreeCall(ev, gates[Len(ev.wires) + 1])
    /\ UNCHANGED <<gates, output_refs, pc, garbler, wires, msgs, collected, result, run,
                   test, gb_thread, chan, yielded, routing, bundles, ot, aesrng, gb_iter, server>>

\* the evaluator: output
EvaluatorOutput ==
    /\ pc = "stream"
    /\ ev.state = "running"
    /\ Len(ev.wires) = Len(gates)
    /\ Len(ev.output_wires) < Len(output_refs)
    /\ chan # << >>
    /\ LET nx == IterNext(chan)
           rr == recv_func(nx.m, routing, run.gb_inps, run.ev_inps)
       IN /\ chan' = nx.rest
          /\ yielded' = Append(yielded, nx.m)
          /\ routing' = IF rr.panic # "" THEN rr.it
                         ELSE [rr.it EXCEPT !.returned = Append(@, rr.m)]
          /\ ev' = IF rr.panic # "" THEN [ev EXCEPT !.state = "failed", !.err = rr.panic]
                   ELSE EvaluatorOutputCall(
                            ev, ev.wires[output_refs[Len(ev.output_wires) + 1]], rr.m)
    /\ UNCHANGED <<gates, output_refs, pc, garbler, wires, msgs, collected, result, run,
                   test, gb_thread, bundles, ot, aesrng, gb_iter, server>>

\* the panic of the evaluator unwinds streaming_test: ev is dropped, with it recv_func
\* and gb_iter, which recv_func owns; the Receiver goes, with what is queued.  Until
\* then the garbler thread goes on, and a send that waited for the slot that
\* gb_iter.next() freed completes
StreamingTestUnwind ==
    /\ pc = "stream"
    /\ ev.state = "failed"
    /\ gb_iter.state = "live"
    /\ gb_iter' = [state |-> "dropped"]
    /\ chan' = << >>
    /\ UNCHANGED <<gates, output_refs, pc, garbler, wires, msgs, collected, result, run,
                   test, gb_thread, yielded, routing, ev, bundles, ot, aesrng, server>>

\* streaming_test: ev.decode_output()
StreamDecodeOutput ==
    /\ pc = "stream"
    /\ ev.state = "running"
    /\ Len(ev.wires) = Len(gates)
    /\ Len(ev.output_wires) = Len(output_refs)
    /\ run' = [run EXCEPT !.decoded = EvaluatorDecodeOutput(ev)]
    /\ ev' = [ev EXCEPT !.state = "done"]
    /\ pc' = "stream_decoded"
    /\ UNCHANGED <<gates, output_refs, garbler, wires, msgs, collected, result,
                   test, gb_thread, chan, yielded, routing, bundles, ot, aesrng, gb_iter, server>>

\* the garbler thread: sender.send(m) returns Err and expect panics; the thread
\* unwinds, and the Garbler and the Sender are dropped
ChannelSendFails ==
    /\ pc = "stream"
    /\ gb_thread.state = "sending"
    /\ sender_send(chan, gb_iter) = "Err"
    /\ gb_thread' = [state |-> "panicked", pending |-> << >>, panic |-> SendExpect]
    /\ UNCHANGED <<gates, output_refs, pc, garbler, wires, msgs, collected, result, run,
                   test, chan, yielded, routing, ev, bundles, ot, aesrng, gb_iter, server>>

NextStream ==
    \/ GarblerCall
    \/ GarblerOutputCall
    \/ ChannelSend
    \/ ChannelSendFails
    \/ GarblerThreadExit
    \/ EvaluatorRecv
    \/ EvaluatorFree
    \/ EvaluatorOutput
    \/ StreamingTestUnwind
    \/ StreamDecodeOutput

SpecStream == InitStream /\ [][NextStream]_vars

(***************************************************************************)
(* garble_iter with a consumer that is any code holding the iterator: it   *)
(* pulls messages, and it may drop the iterator.                           *)
(***************************************************************************)
\* the consumer: next() returns the oldest message queued
ConsumerNext ==
    /\ pc = "stream"
    /\ gb_iter.state = "live"
    /\ chan # << >>
    /\ LET nx == IterNext(chan)
       IN /\ chan' = nx.rest
          /\ yielded' = Append(yielded, nx.m)
    /\ UNCHANGED <<gates, output_refs, pc, garbler, wires, msgs, collected, result, run,
                   test, gb_thread, routing, ev, bundles, ot, aesrng, gb_iter, server>>

\* the consumer: next() returns None, nothing is queued and the Sender was dropped
ConsumerNextNone ==
    /\ pc = "stream"
    /\ gb_iter.state = "live"
    /\ chan = << >>
    /\ gb_thread.state \in {"done", "panicked"}
    /\ gb_iter' = [state |-> "ended"]
    /\ UNCHANGED <<gates, output_refs, pc, garbler, wires, msgs, collected, result, run,
                   test, gb_thread, chan, yielded, routing, ev, bundles, ot, aesrng, server>>

\* the consumer drops the iterator: the Receiver goes, and the messages queued with it
ConsumerDrop ==
    /\ pc = "stream"
    /\ gb_iter.state = "live"
    /\ gb_iter' = [state |-> "dropped"]
    /\ chan' = << >>
    /\ UNCHANGED <<gates, output_refs, pc, garbler, wires, msgs, collected, result, run,
                   test, gb_thread, yielded, routing, ev, bundles, ot, aesrng, server>>

\* the steps of the garbler thread
GarblerThreadNext ==
    \/ GarblerCall
    \/ GarblerOutputCall
    \/ ChannelSend
    \/ ChannelSendFails
    \/ GarblerThreadExit

\* the garbler thread can take a step: it is in the computation, or in a send that
\* can return
GarblerThreadEnabled ==
    /\ pc = "stream"
    /\ \/ gb_thread.state = "running"
       \/ gb_thread.state = "sending" /\ sender_send(chan, gb_iter) # "blocked"

\* a step of the garbler thread: only the thread changes these
GarblerThreadStepped == gb_thread' # gb_thread \/ wires' # wires \/ garbler' # garbler

\* the garbler thread is scheduled whenever it can go on: weak fairness of
\* GarblerThreadNext, with the enabling condition of the thread written out
GarblerThreadFair ==
    []<>(~GarblerThreadEnabled) \/ []<><<GarblerThreadStepped>>_vars

\* the steps of a consumer that keeps pulling
ConsumerPull == ConsumerNext \/ ConsumerNextNone

NextIterPull ==
    \/ GarblerCall
    \/ GarblerOutputCall
    \/ ChannelSend
    \/ GarblerThreadExit
    \/ ConsumerNext
    \/ ConsumerNextNone

\* the garbler thread is scheduled whenever it can go on, and the consumer calls
\* next again and again
SpecIterPull ==
    /\ InitStream
    /\ [][NextIterPull]_vars
    /\ GarblerThreadFair
    /\ WF_vars(ConsumerPull)

NextIterDrop ==
    \/ GarblerCall
    \/ GarblerOutputCall
    \/ ChannelSend
    \/ ChannelSendFails
    \/ GarblerThreadExit
    \/ ConsumerNext
    \/ ConsumerNextNone
    \/ ConsumerDrop

\* the consumer pulls or drops the iterator as it likes; the garbler thread is
\* scheduled whenever it can go on
SpecIterDrop ==
    /\ InitStream
    /\ [][NextIterDrop]_vars
    /\ GarblerThreadFair

(***************************************************************************)
(* Properties of streaming.                                                *)
(***************************************************************************)
Streaming == pc \in {"stream", "stream_decoded"}

\* C2: in streaming mode, the same fancy computation run by a Garbler through
\* garble_iter and by an Evaluator fed through recv_func decodes to the
\* plaintext result, for every garbler input x and evaluator input y below the
\* modulus: (x+y) mod Q for add, (Q+x-y) mod Q for sub, (x*y) mod Q for mul,
\* (5x) mod Q for cmul by 5, and tt[x] for proj.
C2_StreamingResults ==
    pc = "stream_decoded" =>
        LET Q == test.Q
            x == run.gb_inps[1]
            y == run.ev_inps[1]
            tt == gates[Len(gates)].tt
            expected ==
                CASE test.name = "addition" -> <<(x + y) % Q>>
                  [] test.name = "subtraction" -> <<((Q + x) - y) % Q>>
                  [] test.name = "multiplication" -> <<(x * y) % Q>>
                  [] test.name = "cmul" -> <<(5 * x) % Q>>
                  [] test.name = "proj" -> <<tt[x + 1]>>
                  [] OTHER -> run.should_be
        IN /\ run.decoded.ok
           /\ run.decoded.values = expected
           /\ run.decoded.values = run.should_be

\* a multiplication mod 5 of 4 and 3 was streamed and decoded
C2_Witness ==
    /\ pc = "stream_decoded"
    /\ test = [name |-> "multiplication", Q |-> 5]
    /\ run.gb_inps = <<4>>
    /\ run.ev_inps = <<3>>
    /\ run.decoded.values = <<2>>
    /\ Len(yielded) = 4

\* C3: the messages pulled from the iterator of garble_iter arrive in the order
\* the garbler emitted them: the k-th message yielded is the k-th message
\* passed to the send callback, none lost, duplicated or reordered; as long as
\* the iterator is not dropped, the messages not yet yielded are those queued and
\* the one being sent.
C3_FifoOrder ==
    Streaming =>
        /\ Len(yielded) <= Len(msgs)
        /\ \A k \in 1 .. Len(yielded) : yielded[k] = msgs[k]
        /\ gb_iter.state # "dropped" => msgs = (yielded \o chan) \o gb_thread.pending

\* more messages than the channel holds were yielded, with others still queued
C3_Witness ==
    /\ Streaming
    /\ Len(yielded) > ChannelCapacity
    /\ Len(chan) >= 1
    /\ yielded # << >>
    /\ yielded = SubSeq(msgs, 1, Len(yielded))

\* C4: the channel of garble_iter never holds more than 20 messages, whatever
\* the size of the computation; while 20 are queued the garbler thread stays
\* in send (no step of it happens), and while the queue is empty and the
\* garbler thread has not finished the consumer gets no message from next.
C4_Backpressure ==
    /\ [](Len(chan) <= 20)
    /\ [][/\ (gb_thread.state = "sending" /\ Len(chan) = 20)
                => UNCHANGED <<gb_thread, garbler, wires, msgs>>
          /\ (chan = << >> /\ gb_thread.state \in {"running", "sending"})
                => UNCHANGED <<yielded, routing>>]_vars

\* the garbler thread is in send with 20 messages queued
C4_Witness ==
    /\ Streaming
    /\ Len(chan) = 20
    /\ gb_thread.state = "sending"
    /\ Len(msgs) = 21

(***************************************************************************)
(* Serialisation (src/src/garble.rs: Message::to_bytes and from_bytes, by  *)
(* bincode over the derived Serialize; spec.md section 6).  A schema says  *)
(* how a value is laid out; bytes are numbers below 256, little-endian.    *)
(***************************************************************************)
\* the bytes of a block
BlockBytes == (BlockBits + 7) \div 8

\* a number as k bytes
RECURSIVE LE(_, _)
LE(n, k) == IF k = 0 THEN << >> ELSE <<n % 256>> \o LE(n \div 256, k - 1)

\* the number in the k bytes from pos
RECURSIVE FromLE(_, _, _)
FromLE(bs, pos, k) == IF k = 0 THEN 0 ELSE bs[pos] + (256 * FromLE(bs, pos + 1, k - 1))

RECURSIVE Concat(_, _)
Concat(ss, n) == IF n = 0 THEN << >> ELSE Concat(ss, n - 1) \o ss[n]

T_Int(k) == [t |-> "int", bytes |-> k, of |-> << >>]

T_U16 == T_Int(2)

T_Block == T_Int(BlockBytes)

T_Wire == [t |-> "wire", bytes |-> 0, of |-> << >>]

T_Seq(s) == [t |-> "seq", bytes |-> 0, of |-> <<s>>]

T_Tuple(ss) == [t |-> "tuple", bytes |-> 0, of |-> ss]

T_Enum(ss) == [t |-> "enum", bytes |-> 0, of |-> ss]

\* the digits of a label, least significant first
WireDigits(w) == [i \in 1 .. NumDigits(w.q) |-> (w.n \div Pow(w.q, i - 1)) % w.q]

RECURSIVE DigitsValue(_, _, _)
DigitsValue(ds, q, n) == IF n = 0 THEN 0 ELSE (ds[n] * Pow(q, n - 1)) + DigitsValue(ds, q, n - 1)

\* a Wire: its modulus, then the block for modulus 2 and the digits otherwise
WireBytes(w) ==
    LE(w.q, 2) \o
    (IF w.q = 2 THEN LE(w.n, BlockBytes)
     ELSE LET ds == WireDigits(w)
          IN LE(Len(ds), 8) \o Concat([i \in DOMAIN ds |-> LE(ds[i], 2)], Len(ds)))

Failed(pos) == [ok |-> FALSE, v |-> << >>, pos |-> pos]

ReadInt(bs, pos, k) ==
    IF pos + k - 1 > Len(bs) THEN Failed(pos)
    ELSE [ok |-> TRUE, v |-> FromLE(bs, pos, k), pos |-> pos + k]

ReadWire(bs, pos) ==
    LET q == ReadInt(bs, pos, 2)
    IN IF ~q.ok \/ q.v < 2 THEN Failed(pos)
       ELSE IF q.v = 2
       THEN LET b == ReadInt(bs, q.pos, BlockBytes)
            IN IF ~b.ok \/ b.v >= BlockMod THEN Failed(pos)
               ELSE [ok |-> TRUE, v |-> Wire(2, b.v), pos |-> b.pos]
       ELSE LET n == ReadInt(bs, q.pos, 8)
            IN IF ~n.ok \/ n.v # NumDigits(q.v) THEN Failed(pos)
               ELSE IF n.pos + (2 * n.v) - 1 > Len(bs) THEN Failed(pos)
               ELSE LET ds == [i \in 1 .. n.v |-> FromLE(bs, n.pos + (2 * (i - 1)), 2)]
                    IN IF \E i \in DOMAIN ds : ds[i] >= q.v THEN Failed(pos)
                       ELSE [ok |-> TRUE, v |-> Wire(q.v, DigitsValue(ds, q.v, n.v)),
                             pos |-> n.pos + (2 * n.v)]

\* bincode::serialize of a value laid out by the schema
RECURSIVE Ser(_, _)
Ser(s, v) ==
    CASE s.t = "int" -> LE(v, s.bytes)
      [] s.t = "wire" -> WireBytes(v)
      [] s.t = "seq" ->
            LE(Len(v), 8) \o Concat([i \in DOMAIN v |-> Ser(s.of[1], v[i])], Len(v))
      [] s.t = "tuple" -> Concat([i \in DOMAIN s.of |-> Ser(s.of[i], v[i])], Len(s.of))
      [] s.t = "enum" -> LE(v.variant, 4) \o Ser(s.of[v.variant + 1], v.v)

\* bincode::deserialize: the value, and the position after it
RECURSIVE De(_, _, _)
RECURSIVE DeList(_, _, _, _)
De(s, bs, pos) ==
    CASE s.t = "int" -> ReadInt(bs, pos, s.bytes)
      [] s.t = "wire" -> ReadWire(bs, pos)
      [] s.t = "seq" ->
            LET n == ReadInt(bs, pos, 8)
            IN IF ~n.ok \/ n.v > Len(bs) THEN Failed(pos)
               ELSE DeList([i \in 1 .. n.v |-> s.of[1]], bs, n.pos, n.v)
      [] s.t = "tuple" -> DeList(s.of, bs, pos, Len(s.of))
      [] s.t = "enum" ->
            LET k == ReadInt(bs, pos, 4)
            IN IF ~k.ok \/ k.v >= Len(s.of) THEN Failed(pos)
               ELSE LET r == De(s.of[k.v + 1], bs, k.pos)
                    IN IF ~r.ok THEN Failed(pos)
                       ELSE [ok |-> TRUE, v |-> [variant |-> k.v, v |-> r.v], pos |-> r.pos]

\* the values of the first n schemas, one after the other
DeList(ss, bs, pos, n) ==
    IF n = 0 THEN [ok |-> TRUE, v |-> << >>, pos |-> pos]
    ELSE LET rs == DeList(ss, bs, pos, n - 1)
         IN IF ~rs.ok THEN Failed(pos)
            ELSE LET r == De(ss[n], bs, rs.pos)
                 IN IF ~r.ok THEN Failed(pos)
                    ELSE [ok |-> TRUE, v |-> Append(rs.v, r.v), pos |-> r.pos]

\* enum Message: the variants in the order of their declaration
MessageSchema ==
    T_Enum(<<T_Tuple(<<T_Wire, T_Wire>>),
             T_Tuple(<<T_Wire, T_Wire>>),
             T_Tuple(<<T_Wire>>),
             T_Tuple(<<T_Wire>>),
             T_Tuple(<<T_U16, T_Wire>>),
             T_Tuple(<<T_Seq(T_Block)>>),
             T_Tuple(<<T_Seq(T_Block)>>)>>)

MessageValue(m) ==
    CASE m.type = "UnencodedGarblerInput" -> [variant |-> 0, v |-> <<m.zero, m.delta>>]
      [] m.type = "UnencodedEvaluatorInput" -> [variant |-> 1, v |-> <<m.zero, m.delta>>]
      [] m.type = "GarblerInput" -> [variant |-> 2, v |-> <<m.wire>>]
      [] m.type = "EvaluatorInput" -> [variant |-> 3, v |-> <<m.wire>>]
      [] m.type = "Constant" -> [variant |-> 4, v |-> <<m.value, m.wire>>]
      [] m.type = "GarbledGate" -> [variant |-> 5, v |-> <<m.gate>>]
      [] m.type = "OutputCiphertext" -> [variant |-> 6, v |-> <<m.c>>]

MessageOfValue(x) ==
    CASE x.variant = 0 -> UnencodedGarblerInput(x.v[1], x.v[2])
      [] x.variant = 1 -> UnencodedEvaluatorInput(x.v[1], x.v[2])
      [] x.variant = 2 -> GarblerInputMsg(x.v[1])
      [] x.variant = 3 -> EvaluatorInputMsg(x.v[1])
      [] x.variant = 4 -> ConstantMsg(x.v[1], x.v[2])
      [] x.variant = 5 -> GarbledGateMsg(x.v[1])
      [] x.variant = 6 -> OutputCiphertextMsg(x.v[1])

\* a to_bytes that writes an input of the evaluator under the garbler's tag
to_bytes_GarblerTag(m) ==
    Ser(MessageSchema, [MessageValue(m) EXCEPT !.variant = IF @ = 1 THEN 0 ELSE @])

\* Message::to_bytes
to_bytes(m) == Ser(MessageSchema, MessageValue(m))

\* Message::from_bytes
from_bytes(bs) ==
    LET r == De(MessageSchema, bs, 1)
    IN IF r.ok THEN [ok |-> TRUE, err |-> "", v |-> MessageOfValue(r.v)]
       ELSE [ok |-> FALSE, err |-> "error decoding Message from bytes", v |-> << >>]

\* the entries of a map, in the order the map iterates them
MapEntries(f) ==
    LET n == Cardinality(DOMAIN f)
        ord == CHOOSE o \in [1 .. n -> DOMAIN f] :
                  \A i, j \in 1 .. n : (i # j) => (o[i] # o[j])
    IN [i \in 1 .. n |-> <<ord[i], f[ord[i]]>>]

\* the map of a list of entries
MapOfEntries(es) ==
    [k \in {es[i][1] : i \in DOMAIN es} |->
        es[CHOOSE i \in DOMAIN es : es[i][1] = k /\ \A j \in DOMAIN es :
                                        (es[j][1] = k) => (j <= i)][2]]

EncoderSchema ==
    T_Tuple(<<T_Seq(T_Wire), T_Seq(T_Wire), T_Seq(T_Tuple(<<T_U16, T_Wire>>))>>)

\* Encoder::to_bytes, Encoder::from_bytes
EncoderToBytes(e) ==
    Ser(EncoderSchema, <<e.garbler_inputs, e.evaluator_inputs, MapEntries(e.deltas)>>)

EncoderFromBytes(bs) ==
    LET r == De(EncoderSchema, bs, 1)
    IN IF r.ok
       THEN [ok |-> TRUE, v |-> EncoderNew(r.v[1], r.v[2], MapOfEntries(r.v[3]))]
       ELSE [ok |-> FALSE, v |-> << >>]

GarbledCircuitSchema ==
    T_Tuple(<<T_Seq(T_Seq(T_Block)),
              T_Seq(T_Tuple(<<T_Tuple(<<T_U16, T_U16>>), T_Wire>>))>>)

\* GarbledCircuit::to_bytes, GarbledCircuit::from_bytes
GarbledCircuitToBytes(g) == Ser(GarbledCircuitSchema, <<g.gates, MapEntries(g.consts)>>)

GarbledCircuitFromBytes(bs) ==
    LET r == De(GarbledCircuitSchema, bs, 1)
    IN IF r.ok
       THEN [ok |-> TRUE, v |-> GarbledCircuitNew(r.v[1], MapOfEntries(r.v[2]))]
       ELSE [ok |-> FALSE, v |-> << >>]

DecoderSchema == T_Tuple(<<T_Seq(T_Seq(T_Block))>>)

\* Decoder::to_bytes, Decoder::from_bytes
DecoderToBytes(d) == Ser(DecoderSchema, <<d.outputs>>)

DecoderFromBytes(bs) ==
    LET r == De(DecoderSchema, bs, 1)
    IN IF r.ok THEN [ok |-> TRUE, v |-> DecoderNew(r.v[1])] ELSE [ok |-> FALSE, v |-> << >>]

(***************************************************************************)
(* Properties of the serialisation.                                        *)
(***************************************************************************)
MessageRoundTrips(m) ==
    LET r == from_bytes(to_bytes(m)) IN r.ok /\ r.v = m

\* C9: for the Encoder, the Decoder and the GarbledCircuit that garble
\* produced, from_bytes(to_bytes(x)) succeeds and equals x; and for every
\* message m, the ones the garbler sent and the encoded inputs made of them,
\* Message::from_bytes(m.to_bytes()) succeeds and equals m.
C9_RoundTrip ==
    /\ msgs # << >> => MessageRoundTrips(msgs[Len(msgs)])
    /\ pc = "garbled" =>
          /\ LET r == EncoderFromBytes(EncoderToBytes(result.en))
             IN r.ok /\ r.v = result.en
          /\ LET r == DecoderFromBytes(DecoderToBytes(result.de))
             IN r.ok /\ r.v = result.de
          /\ LET r == GarbledCircuitFromBytes(GarbledCircuitToBytes(result.ev))
             IN r.ok /\ r.v = result.ev
    /\ pc = "garbled" =>
          \A k \in DOMAIN GarblerInputMods : \A v \in 0 .. (GarblerInputMods[k] - 1) :
              MessageRoundTrips(GarblerInputMsg(
                  EncodeGarblerInputs(result.en, OneInput(GarblerInputMods, k, v))[k]))
    /\ pc = "evaluated" =>
          \A w \in {EncodeEvaluatorInputs(result.en, run.ev_inps)[i] :
                        i \in DOMAIN run.ev_inps} :
              MessageRoundTrips(EvaluatorInputMsg(w))

\* garble produced a circuit with an input of the evaluator, a constant and a
\* garbled gate, with labels of the moduli 2 and 3
C9_Witness ==
    /\ pc = "garbled"
    /\ DOMAIN result.ev.consts # {}
    /\ Len(result.ev.gates) = 1
    /\ Len(result.en.evaluator_inputs) = 1
    /\ DOMAIN result.en.deltas = {2, 3}
    /\ from_bytes(to_bytes(msgs[1])).ok
    /\ GarbledCircuitFromBytes(GarbledCircuitToBytes(result.ev)).v = result.ev

(***************************************************************************)
(* The gadgets (spec.md section 4.4).  A gadget is generic over the Fancy  *)
(* object; here the object is the circuit builder, so that a gadget        *)
(* appends gates to a circuit b and returns references to them, and the    *)
(* circuit is then evaluated on plaintext inputs.                          *)
(***************************************************************************)
\* the error kinds of a gadget (spec.md section 7); "" is Ok
NoError == ""

\* the builder appends one gate and returns the reference of its wire
BuilderGate(b, g) == [b |-> Append(b, g), w |-> Len(b) + 1, err |-> NoError]

BuilderGarblerInput(b, q) ==
    BuilderGate(b, Gate("GarblerInput", q, 0, 0, 0, 0, << >>, NumGarblerInputs(b)))

BuilderEvaluatorInput(b, q) ==
    BuilderGate(b, Gate("EvaluatorInput", q, 0, 0, 0, 0, << >>, NumEvaluatorInputs(b)))

BuilderConstant(b, val, q) ==
    BuilderGate(b, Gate("Constant", q, 0, 0, 0, val, << >>, 0))

BuilderAdd(b, x, y) == BuilderGate(b, Gate("Add", b[x].q, x, y, 0, 0, << >>, 0))

BuilderSub(b, x, y) == BuilderGate(b, Gate("Sub", b[x].q, x, y, 0, 0, << >>, 0))

BuilderCmul(b, x, c) == BuilderGate(b, Gate("Cmul", b[x].q, x, 0, c, 0, << >>, 0))

BuilderMul(b, x, y) ==
    BuilderGate(b, Gate("Mul", IF b[x].q < b[y].q THEN b[y].q ELSE b[x].q,
                        x, y, 0, 0, << >>, CountKind(b, {"Proj", "Mul"})))

BuilderProj(b, x, q, tt) ==
    BuilderGate(b, Gate("Proj", q, x, 0, 0, 0, tt, CountKind(b, {"Proj", "Mul"})))

\* the error of a gadget: the builder as it is, and no wire
GadgetError(b, err) == [b |-> b, w |-> 0, ws |-> << >>, c |-> 0, err |-> err]

\* the operator `?`: the error of r is returned, or the gadget goes on with r
Try(r, F(_)) == IF r.err # NoError THEN GadgetError(r.b, r.err) ELSE F(r)

\* FancyBuilder::add_many: asserts more than one argument, then folds add
RECURSIVE AddManyFrom(_, _, _, _)
AddManyFrom(b, z, args, i) ==
    IF i > Len(args) THEN [b |-> b, w |-> z, err |-> NoError]
    ELSE Try(BuilderAdd(b, z, args[i]), LAMBDA r : AddManyFrom(r.b, r.w, args, i + 1))

add_many(b, args) ==
    IF Len(args) > 1 THEN AddManyFrom(b, args[1], args, 2)
    ELSE GadgetError(b, "panic")

\* FancyBuilder::mod_change: the wire itself when the modulus is the same
mod_change(b, x, to_modulus) ==
    IF b[x].q = to_modulus THEN [b |-> b, w |-> x, err |-> NoError]
    ELSE BuilderProj(b, x, to_modulus, [v \in 1 .. b[x].q |-> (v - 1) % to_modulus])

\* ds.iter().map(|d| self.mod_change(d, q)).collect()
RECURSIVE ModChangeAll(_, _, _, _)
ModChangeAll(b, ds, q, i) ==
    IF i > Len(ds) THEN [b |-> b, ws |-> << >>, err |-> NoError]
    ELSE Try(mod_change(b, ds[i], q), LAMBDA r :
         Try(ModChangeAll(r.b, ds, q, i + 1), LAMBDA rest :
         [b |-> rest.b, ws |-> <<r.w>> \o rest.ws, err |-> NoError]))

\* the greatest u16: max_val, max_val + 1 and next_max_val are computed in u16, and
\* an overflow panics (overflow checks are on in the dev and test profiles of the
\* build; with them off the value wraps modulo 2^16)
U16Max == 65535

\* nargs as u16: the cast truncates
AsU16(n) == n % (U16Max + 1)

\* the truth table of the carry into the next digit, reduced modulo its modulus
CarryTable(max_val, q, next_mod) ==
    [v \in 1 .. (max_val + 1) |-> ((v - 1) \div q) % next_mod]

\* the truth table of the carry kept for the carry of the next digit
CarryCarryTable(max_val, q) == [v \in 1 .. (max_val + 1) |-> (v - 1) \div q]

\* the state of the loop of mixed_radix_addition after a digit; a digit_carry or a
\* carry_carry of 0 is None
AfterDigit(b, digit_carry, carry_carry, max_carry, res) ==
    [b |-> b, digit_carry |-> digit_carry, carry_carry |-> carry_carry,
     max_carry |-> max_carry, res |-> res, err |-> NoError]

\* x.map_or(sum, |d| self.add(&sum, &d)) for an x that is None or Some(d)
AddCarry(sum, x) == IF x = 0 THEN sum ELSE BuilderAdd(sum.b, sum.w, x)

\* FancyBuilder::mixed_radix_addition: the carries of digit i (from 1), which is
\* not the last, from the digit computed.  max_val is the value of the expression of
\* line 138: above U16Max the expression panics; max_val + 1 (line 142) panics in the
\* first mod_change; next_max_val (line 154) is computed after the projection of
\* digit_carry, whether it is used or not, and next_max_val + 1 (lines 158, 161)
\* before the gate of carry_carry
MixedRadixCarries(st, xs, i, ds, digit, q, max_val, next_mod) ==
    IF max_val > U16Max \/ max_val + 1 > U16Max THEN GadgetError(digit.b, "panic")
    ELSE
    Try(ModChangeAll(digit.b, ds, max_val + 1, 1), LAMBDA modded_ds :
    Try(add_many(modded_ds.b, modded_ds.ws), LAMBDA carry_sum :
    Try(AddCarry(carry_sum, st.carry_carry), LAMBDA carry :
    Try(BuilderProj(carry.b, carry.w, next_mod, CarryTable(max_val, q, next_mod)),
        LAMBDA digit_carry :
    IF (AsU16(Len(xs)) * (next_mod - 1)) + (max_val \div q) > U16Max
    THEN GadgetError(digit_carry.b, "panic")
    ELSE IF i < Len(xs[1]) - 1
    THEN IF (AsU16(Len(xs)) * (next_mod - 1)) + (max_val \div q) + 1 > U16Max
         THEN GadgetError(digit_carry.b, "panic")
         ELSE
         Try(IF max_val \div q < next_mod
             THEN mod_change(digit_carry.b, digit_carry.w,
                             (AsU16(Len(xs)) * (next_mod - 1)) + (max_val \div q) + 1)
             ELSE BuilderProj(digit_carry.b, carry.w,
                              (AsU16(Len(xs)) * (next_mod - 1)) + (max_val \div q) + 1,
                              CarryCarryTable(max_val, q)),
             LAMBDA carry_carry :
         AfterDigit(carry_carry.b, digit_carry.w, carry_carry.w, max_val \div q,
                    Append(st.res, digit.w)))
    ELSE AfterDigit(digit_carry.b, digit_carry.w, 0, max_val \div q,
                    Append(st.res, digit.w))))))

\* FancyBuilder::mixed_radix_addition: the body of the loop for digit i (from 1)
MixedRadixStep(st, xs, i) ==
    Try(add_many(st.b, [k \in 1 .. Len(xs) |-> xs[k][i]]), LAMBDA digit_sum :
    Try(AddCarry(digit_sum, st.digit_carry), LAMBDA digit :
    IF i < Len(xs[1])
    THEN MixedRadixCarries(st, xs, i, [k \in 1 .. Len(xs) |-> xs[k][i]], digit,
                           st.b[xs[1][i]].q,
                           (AsU16(Len(xs)) * (st.b[xs[1][i]].q - 1)) + st.max_carry,
                           st.b[xs[1][i + 1]].q)
    ELSE AfterDigit(digit.b, 0, 0, st.max_carry, Append(st.res, digit.w))))

RECURSIVE MixedRadixLoop(_, _, _)
MixedRadixLoop(st, xs, i) ==
    IF i > Len(xs[1]) THEN st
    ELSE Try(MixedRadixStep(st, xs, i), LAMBDA next : MixedRadixLoop(next, xs, i + 1))

\* FancyBuilder::mixed_radix_addition
mixed_radix_addition(b, xs) ==
    IF Len(xs) > 1 /\ \A k \in DOMAIN xs : Len(xs[k]) = Len(xs[1])
    THEN Try(MixedRadixLoop(AfterDigit(b, 0, 0, 0, << >>), xs, 1), LAMBDA st :
         [b |-> st.b, ws |-> st.res, err |-> NoError])
    ELSE GadgetError(b, "panic")

\* util::as_mixed_radix and util::from_mixed_radix: the least significant digit first
RECURSIVE as_mixed_radix(_, _)
as_mixed_radix(x, mods) ==
    IF mods = << >> THEN << >>
    ELSE <<x % Head(mods)>> \o as_mixed_radix(x \div Head(mods), Tail(mods))

RECURSIVE from_mixed_radix(_, _)
from_mixed_radix(digits, mods) ==
    IF digits = << >> THEN 0
    ELSE Head(digits) + (Head(mods) * from_mixed_radix(Tail(digits), Tail(mods)))

RECURSIVE Product(_)
Product(mods) == IF mods = << >> THEN 1 ELSE Head(mods) * Product(Tail(mods))

\* evaluator_input_bundles(mods, n): n bundles, a wire for every modulus
EvaluatorInputBundle(b, mods, i) ==
    LET m == (Len(mods) - i) + 1
        first == NumEvaluatorInputs(b)
    IN IF m <= 0 THEN [b |-> b, ws |-> << >>, err |-> NoError]
       ELSE [b |-> b \o [k \in 1 .. m |->
                            Gate("EvaluatorInput", mods[(i + k) - 1], 0, 0, 0, 0, << >>,
                                 (first + k) - 1)],
             ws |-> [k \in 1 .. m |-> Len(b) + k],
             err |-> NoError]

\* one evaluator input bundle for every list of moduli, from the k-th
RECURSIVE EvaluatorInputBundles(_, _, _)
EvaluatorInputBundles(b, args, k) ==
    IF k > Len(args) THEN [b |-> b, xs |-> << >>, err |-> NoError]
    ELSE LET r == EvaluatorInputBundle(b, args[k], 1)
             rest == EvaluatorInputBundles(r.b, args, k + 1)
         IN IF r.err # NoError THEN [b |-> r.b, xs |-> << >>, err |-> r.err]
            ELSE [b |-> rest.b, xs |-> <<r.ws>> \o rest.xs, err |-> rest.err]

\* the concatenation of sequences
RECURSIVE Flatten(_)
Flatten(ss) == IF ss = << >> THEN << >> ELSE Head(ss) \o Flatten(Tail(ss))

(***************************************************************************)
(* The boolean and binary gadgets (fancy.rs, fancy/binary.rs).  A gadget   *)
(* returns the builder, its wire w or bundle ws, and its error.            *)
(***************************************************************************)
\* the moduli of a binary bundle of n bits
Bits(n) == [i \in 1 .. n |-> 2]

\* the moduli of the wires of a bundle
BundleModuli(b, xs) == [i \in DOMAIN xs |-> b[xs[i]].q]

\* FancyBuilder::xor, FancyBuilder::negate, FancyBuilder::and: each asserts that its
\* arguments are mod 2, and panics before a gate is appended when one is not
xor(b, x, y) ==
    IF b[x].q = 2 /\ b[y].q = 2 THEN BuilderAdd(b, x, y) ELSE GadgetError(b, "panic")

negate(b, x) ==
    IF b[x].q = 2
    THEN Try(BuilderConstant(b, 1, 2), LAMBDA one : xor(one.b, x, one.w))
    ELSE GadgetError(b, "panic")

and(b, x, y) ==
    IF b[x].q = 2 /\ b[y].q = 2 THEN BuilderMul(b, x, y) ELSE GadgetError(b, "panic")

\* args.iter().map(|x| self.proj(x, q, tt)).collect()
RECURSIVE ProjAll(_, _, _, _, _)
ProjAll(b, args, q, tt, i) ==
    IF i > Len(args) THEN [b |-> b, ws |-> << >>, err |-> NoError]
    ELSE Try(BuilderProj(b, args[i], q, tt), LAMBDA r :
         Try(ProjAll(r.b, args, q, tt, i + 1), LAMBDA rest :
         [b |-> rest.b, ws |-> <<r.w>> \o rest.ws, err |-> NoError]))

\* FancyBuilder::or_many: asserts that every argument is mod 2.  The modulus of the
\* projections is b as u16 + 1, computed in u16 at the first argument: the cast
\* truncates b, and the addition panics when it overflows
or_many(b, args) ==
    IF \E i \in DOMAIN args : b[args[i]].q # 2 THEN GadgetError(b, "panic")
    ELSE IF args # << >> /\ AsU16(Len(args)) + 1 > U16Max THEN GadgetError(b, "panic")
    ELSE
    Try(ProjAll(b, args, AsU16(Len(args)) + 1, <<0, 1>>, 1), LAMBDA proj_wires :
    Try(add_many(proj_wires.b, proj_wires.ws), LAMBDA z :
    BuilderProj(z.b, z.w, 2, [v \in 1 .. (Len(args) + 1) |-> IF v = 1 THEN 0 ELSE 1])))

\* Fancy::or
or(b, x, y) == or_many(b, <<x, y>>)

\* Fancy::adder: (x + y + c mod 2, the majority of x, y, c); a carry of 0 is None
adder(b, x, y, c) ==
    IF c = 0
    THEN Try(xor(b, x, y), LAMBDA z :
         Try(and(z.b, x, y), LAMBDA carry :
         [b |-> carry.b, z |-> z.w, c |-> carry.w, err |-> NoError]))
    ELSE Try(xor(b, x, y), LAMBDA z1 :
         Try(xor(z1.b, z1.w, c), LAMBDA z2 :
         Try(xor(z2.b, x, c), LAMBDA z3 :
         Try(and(z3.b, z1.w, z3.w), LAMBDA z4 :
         Try(xor(z4.b, z4.w, x), LAMBDA carry :
         [b |-> carry.b, z |-> z2.w, c |-> carry.w, err |-> NoError])))))

\* util::u128_to_bits: the least significant bit first
u128_to_bits(x, n) == as_mixed_radix(x, [i \in 1 .. n |-> 2])

\* Fancy::constant_bundle, BinaryGadgets::bin_constant_bundle
RECURSIVE ConstantBundle(_, _, _, _)
ConstantBundle(b, xs, ps, i) ==
    IF i > Len(xs) THEN [b |-> b, ws |-> << >>, err |-> NoError]
    ELSE Try(BuilderConstant(b, xs[i], ps[i]), LAMBDA r :
         Try(ConstantBundle(r.b, xs, ps, i + 1), LAMBDA rest :
         [b |-> rest.b, ws |-> <<r.w>> \o rest.ws, err |-> NoError]))

bin_constant_bundle(b, val, nbits) ==
    ConstantBundle(b, u128_to_bits(val, nbits), [i \in 1 .. nbits |-> 2], 1)

\* the loop of adders over the bits i .. last, with the carry c
RECURSIVE AdderLoop(_, _, _, _, _, _, _)
AdderLoop(b, xwires, ywires, c, bs, i, last) ==
    IF i > last THEN [b |-> b, c |-> c, bs |-> bs, err |-> NoError]
    ELSE Try(adder(b, xwires[i], ywires[i], c), LAMBDA res :
         AdderLoop(res.b, xwires, ywires, res.c, Append(bs, res.z), i + 1, last))

\* BinaryGadgets::bin_addition: the sum and the carry
bin_addition(b, xs, ys) ==
    IF BundleModuli(b, xs) # BundleModuli(b, ys)
    THEN GadgetError(b, "UnequalModuli")
    ELSE Try(adder(b, xs[1], ys[1], 0), LAMBDA first :
         Try(AdderLoop(first.b, xs, ys, first.c, <<first.z>>, 2, Len(xs)), LAMBDA loop :
         [b |-> loop.b, ws |-> loop.bs, c |-> loop.c, err |-> NoError]))

\* BinaryGadgets::bin_addition_no_carry
bin_addition_no_carry(b, xs, ys) ==
    IF BundleModuli(b, xs) # BundleModuli(b, ys)
    THEN GadgetError(b, "UnequalModuli")
    ELSE Try(adder(b, xs[1], ys[1], 0), LAMBDA first :
         Try(AdderLoop(first.b, xs, ys, first.c, <<first.z>>, 2, Len(xs) - 1),
             LAMBDA loop :
         Try(add_many(loop.b, <<xs[Len(xs)], ys[Len(ys)], loop.c>>), LAMBDA z :
         [b |-> z.b, ws |-> Append(loop.bs, z.w), err |-> NoError])))

\* xs.wires().iter().map(|x| self.negate(x)).collect()
RECURSIVE NegateAll(_, _, _)
NegateAll(b, xs, i) ==
    IF i > Len(xs) THEN [b |-> b, ws |-> << >>, err |-> NoError]
    ELSE Try(negate(b, xs[i]), LAMBDA r :
         Try(NegateAll(r.b, xs, i + 1), LAMBDA rest :
         [b |-> rest.b, ws |-> <<r.w>> \o rest.ws, err |-> NoError]))

\* BinaryGadgets::bin_twos_complement
bin_twos_complement(b, xs) ==
    Try(NegateAll(b, xs, 1), LAMBDA not_xs :
    Try(bin_constant_bundle(not_xs.b, 1, Len(xs)), LAMBDA one :
    bin_addition_no_carry(one.b, not_xs.ws, one.ws)))

\* BinaryGadgets::bin_subtraction: the difference and the flag
bin_subtraction(b, xs, ys) ==
    Try(bin_twos_complement(b, ys), LAMBDA neg_ys :
    bin_addition(neg_ys.b, xs, neg_ys.ws))

\* BinaryGadgets::bin_lt
bin_lt(b, x, y) ==
    Try(bin_subtraction(b, x, y), LAMBDA sub :
    Try(or_many(sub.b, y), LAMBDA y_contains_1 :
    Try(negate(y_contains_1.b, y_contains_1.w), LAMBDA y_eq_0 :
    Try(or_many(y_eq_0.b, x), LAMBDA x_contains_1 :
    Try(and(x_contains_1.b, y_eq_0.w, x_contains_1.w), LAMBDA rhs :
    Try(or(rhs.b, sub.c, rhs.w), LAMBDA geq :
    negate(geq.b, geq.w)))))))

\* self.and(x, y) for every wire x of xs
RECURSIVE AndAll(_, _, _, _)
AndAll(b, xs, y, i) ==
    IF i > Len(xs) THEN [b |-> b, ws |-> << >>, err |-> NoError]
    ELSE Try(and(b, xs[i], y), LAMBDA r :
         Try(AndAll(r.b, xs, y, i + 1), LAMBDA rest :
         [b |-> rest.b, ws |-> <<r.w>> \o rest.ws, err |-> NoError]))

\* BundleGadgets::shift: n zero digits come in at the low end, the n highest drop out
shift(b, xs, n) ==
    Try(BuilderConstant(b, 0, b[xs[Len(xs)]].q), LAMBDA zero :
    [b |-> zero.b,
     ws |-> [i \in 1 .. Len(xs) |-> IF i <= n THEN zero.w ELSE xs[i - n]],
     err |-> NoError])

\* BinaryGadgets::bin_multiplication_lower_half: the loop over the bits i .. of ys
RECURSIVE MultiplicationLoop(_, _, _, _, _)
MultiplicationLoop(b, xs, ys, sum, i) ==
    IF i > Len(xs) THEN [b |-> b, ws |-> sum, err |-> NoError]
    ELSE Try(AndAll(b, xs, ys[i], 1), LAMBDA mul :
         Try(shift(mul.b, mul.ws, i - 1), LAMBDA shifted :
         Try(bin_addition_no_carry(shifted.b, sum, shifted.ws), LAMBDA next :
         MultiplicationLoop(next.b, xs, ys, next.ws, i + 1))))

\* BinaryGadgets::bin_multiplication_lower_half
bin_multiplication_lower_half(b, xs, ys) ==
    IF BundleModuli(b, xs) # BundleModuli(b, ys)
    THEN GadgetError(b, "UnequalModuli")
    ELSE Try(AndAll(b, xs, ys[1], 1), LAMBDA sum :
         MultiplicationLoop(sum.b, xs, ys, sum.ws, 2))

\* FancyError::InvalidArgNum { got, needed }
InvalidArgNum(b, got, needed) ==
    [b |-> b, ws |-> << >>, err |-> "InvalidArgNum", got |-> got, needed |-> needed]

\* BinaryGadgets::bin_max: x * neg + y * pos for every bit of x and y
RECURSIVE MaxZip(_, _, _, _, _, _)
MaxZip(b, xs, ys, pos, neg, i) ==
    IF i > Len(xs) \/ i > Len(ys) THEN [b |-> b, ws |-> << >>, err |-> NoError]
    ELSE Try(BuilderMul(b, xs[i], neg), LAMBDA xp :
         Try(BuilderMul(xp.b, ys[i], pos), LAMBDA yp :
         Try(BuilderAdd(yp.b, xp.w, yp.w), LAMBDA r :
         Try(MaxZip(r.b, xs, ys, pos, neg, i + 1), LAMBDA rest :
         [b |-> rest.b, ws |-> <<r.w>> \o rest.ws, err |-> NoError]))))

\* BinaryGadgets::bin_max: the fold over the bundles from the k-th
RECURSIVE MaxFold(_, _, _, _)
MaxFold(b, x, xs, k) ==
    IF k > Len(xs) THEN [b |-> b, ws |-> x, err |-> NoError]
    ELSE Try(bin_lt(b, x, xs[k]), LAMBDA pos :
         Try(negate(pos.b, pos.w), LAMBDA neg :
         Try(MaxZip(neg.b, x, xs[k], pos.w, neg.w, 1), LAMBDA z :
         MaxFold(z.b, z.ws, xs, k + 1))))

\* BinaryGadgets::bin_max
bin_max_NeededOne(b, xs) ==
    IF Len(xs) < 1 THEN InvalidArgNum(b, Len(xs), 2) ELSE MaxFold(b, xs[1], xs, 2)

bin_max(b, xs) ==
    IF Len(xs) < 2 THEN InvalidArgNum(b, Len(xs), 2) ELSE MaxFold(b, xs[1], xs, 2)

\* Option: None, Some(v)
None == [some |-> FALSE, v |-> << >>]

Some(v) == [some |-> TRUE, v |-> v]

\* Fancy::garbler_input_bundle: a garbler input for every modulus
RECURSIVE GarblerInputBundle(_, _, _)
GarblerInputBundle(b, mods, i) ==
    IF i > Len(mods) THEN [b |-> b, ws |-> << >>, err |-> NoError]
    ELSE LET r == BuilderGarblerInput(b, mods[i])
             rest == GarblerInputBundle(r.b, mods, i + 1)
         IN IF r.err # NoError THEN [b |-> r.b, ws |-> << >>, err |-> r.err]
            ELSE [b |-> rest.b, ws |-> <<r.w>> \o rest.ws, err |-> rest.err]

\* BinaryGadgets::bin_garbler_input_bundle
bin_garbler_input_bundle(b, nbits) == GarblerInputBundle(b, Bits(nbits), 1)

\* BinaryGadgets::bin_garbler_input_bundles: the bundles k .. n
RECURSIVE GarblerInputBundlesFrom(_, _, _, _)
GarblerInputBundlesFrom(b, nbits, n, k) ==
    IF k > n THEN [b |-> b, xs |-> << >>, err |-> NoError]
    ELSE LET r == bin_garbler_input_bundle(b, nbits)
             rest == GarblerInputBundlesFrom(r.b, nbits, n, k + 1)
         IN IF r.err # NoError THEN [b |-> r.b, xs |-> << >>, err |-> r.err]
            ELSE [b |-> rest.b, xs |-> <<r.ws>> \o rest.xs, err |-> rest.err]

\* BinaryGadgets::bin_garbler_input_bundles
bin_garbler_input_bundles(b, nbits, n, opt_xs) ==
    IF opt_xs.some /\ Len(opt_xs.v) # n
    THEN [b |-> b, xs |-> << >>, err |-> "InvalidArgNum", got |-> Len(opt_xs.v),
          needed |-> n]
    ELSE GarblerInputBundlesFrom(b, nbits, n, 1)

(***************************************************************************)
(* The bundles in the Chinese remainder representation (fancy.rs): a       *)
(* bundle for the composite modulus Q has one wire for every prime of Q.   *)
(***************************************************************************)
\* util::factor: the primes that divide Q, in increasing order
RECURSIVE FactorFrom(_, _)
FactorFrom(Q, p) ==
    IF p > Q THEN << >>
    ELSE IF (Q % p) = 0 /\ \A d \in 2 .. (p - 1) : (p % d) # 0
         THEN <<p>> \o FactorFrom(Q, p + 1)
         ELSE FactorFrom(Q, p + 1)

factor(Q) == FactorFrom(Q, 2)

\* util::crt: the residues of x modulo every prime
crt(primes, x) == [i \in DOMAIN primes |-> x % primes[i]]

\* util::crt_inv: the number below the product of the primes with these residues
crt_inv(primes, residues) ==
    CHOOSE x \in 0 .. (Product(primes) - 1) : crt(primes, x) = residues

\* xs.iter().zip(ys.iter()).map(|(x, y)| self.add(x, y)).collect()
RECURSIVE ZipAdd(_, _, _, _)
ZipAdd(b, xs, ys, i) ==
    IF i > Len(xs) \/ i > Len(ys) THEN [b |-> b, ws |-> << >>, err |-> NoError]
    ELSE LET r == BuilderAdd(b, xs[i], ys[i])
             rest == ZipAdd(r.b, xs, ys, i + 1)
         IN IF r.err # NoError THEN [b |-> r.b, ws |-> << >>, err |-> r.err]
            ELSE [b |-> rest.b, ws |-> <<r.w>> \o rest.ws, err |-> rest.err]

RECURSIVE ZipSub(_, _, _, _)
ZipSub(b, xs, ys, i) ==
    IF i > Len(xs) \/ i > Len(ys) THEN [b |-> b, ws |-> << >>, err |-> NoError]
    ELSE LET r == BuilderSub(b, xs[i], ys[i])
             rest == ZipSub(r.b, xs, ys, i + 1)
         IN IF r.err # NoError THEN [b |-> r.b, ws |-> << >>, err |-> r.err]
            ELSE [b |-> rest.b, ws |-> <<r.w>> \o rest.ws, err |-> rest.err]

RECURSIVE ZipCmul(_, _, _, _)
ZipCmul(b, xs, cs, i) ==
    IF i > Len(xs) \/ i > Len(cs) THEN [b |-> b, ws |-> << >>, err |-> NoError]
    ELSE LET r == BuilderCmul(b, xs[i], cs[i])
             rest == ZipCmul(r.b, xs, cs, i + 1)
         IN IF r.err # NoError THEN [b |-> r.b, ws |-> << >>, err |-> r.err]
            ELSE [b |-> rest.b, ws |-> <<r.w>> \o rest.ws, err |-> rest.err]

\* FancyBuilder::add_bundles, FancyBuilder::sub_bundles: assert equal lengths
add_bundles(b, xs, ys) ==
    IF Len(xs) # Len(ys) THEN [b |-> b, ws |-> << >>, err |-> "panic"]
    ELSE ZipAdd(b, xs, ys, 1)

sub_bundles(b, xs, ys) ==
    IF Len(xs) # Len(ys) THEN [b |-> b, ws |-> << >>, err |-> "panic"]
    ELSE ZipSub(b, xs, ys, 1)

\* FancyBuilder::cmul_bundle: every wire is multiplied by c modulo its prime
cmul_bundle_FirstResidue(b, xs, c) ==
    LET primes == BundleModuli(b, xs)
    IN ZipCmul(b, xs, [i \in DOMAIN primes |-> c % primes[1]], 1)

cmul_bundle(b, xs, c) ==
    LET primes == BundleModuli(b, xs)
        cs == crt(primes, c)
    IN ZipCmul(b, xs, cs, 1)

(***************************************************************************)
(* The gadget tests: a test makes one evaluator input bundle for every     *)
(* argument, calls the gadget on them, outputs the bundle it returns and    *)
(* evaluates the circuit (garble.rs, classic::mixed_radix_addition).       *)
(***************************************************************************)
MaxArgs == 3

\* the moduli of the digits, the least significant first
RadixLists == {<<5>>, <<2, 3>>, <<3, 2, 3>>, <<3, 2, 5>>, <<3, 7, 10, 2, 13>>}

\* args: the moduli of every argument bundle; c: the constant argument;
\* nbits, n, opt_xs: the arguments of bin_garbler_input_bundles
GadgetTest(name, args, c) ==
    [name |-> name, args |-> args, c |-> c, nbits |-> 0, n |-> 0, opt_xs |-> None]

\* bundles whose digits or carries do not fit the u16 of max_val (fancy.rs:138),
\* of max_val + 1 (142) and of next_max_val (154)
OverflowTests ==
    {GadgetTest("mixed_radix_addition", <<(<<40000, 2>>), (<<40000, 2>>)>>, 0),
     GadgetTest("mixed_radix_addition", <<(<<21846, 2>>), (<<21846, 2>>), (<<21846, 2>>)>>, 0),
     GadgetTest("mixed_radix_addition", <<(<<2, 40000, 2>>), (<<2, 40000, 2>>)>>, 0)}

MixedRadixTests ==
    {GadgetTest("mixed_radix_addition", [k \in 1 .. nargs |-> mods], 0) :
        mods \in RadixLists, nargs \in 2 .. MaxArgs}
    \cup OverflowTests

MaxBits == 3

BitWidths == (1 .. MaxBits) \cup {8}

BinaryTests ==
    {GadgetTest(name, <<Bits(n), Bits(n)>>, 0) :
        name \in {"bin_subtraction", "bin_lt"}, n \in BitWidths}

\* two bundles of one to MaxBits bits each, of the same width or not, and two
\* bundles of the same width that differ in a modulus
BinaryPairs ==
    {<<Bits(n), Bits(m)>> : n, m \in 1 .. MaxBits} \cup {<<(<<2, 2>>), (<<2, 3>>)>>}

AdditionTests ==
    {GadgetTest(name, args, 0) :
        name \in {"bin_addition", "bin_addition_no_carry", "bin_multiplication_lower_half"},
        args \in BinaryPairs}

\* bin_max of no bundle, one, two and three bundles of two bits
MaxTests == {GadgetTest("bin_max", [k \in 1 .. n |-> Bits(2)], 0) : n \in 0 .. 3}

\* bin_garbler_input_bundles for n bundles, without values and with 0 to 3 values
InputTests ==
    {[GadgetTest("bin_garbler_input_bundles", << >>, 0) EXCEPT
         !.nbits = nbits, !.n = n, !.opt_xs = opt_xs] :
        nbits \in 1 .. 2, n \in 0 .. 2,
        opt_xs \in {None} \cup {Some([k \in 1 .. got |-> v]) : got \in 0 .. 3, v \in 0 .. 1}}

\* the numbers of wires or_many is called on: one, a few, and the sixteen of the
\* test classic::or_many
OrManyWidths == {1, 2, 3, 16}

\* and or_many on as many wires as make b as u16 + 1 overflow (fancy.rs:92)
OrManyTests ==
    {GadgetTest("or_many", <<Bits(n)>>, 0) : n \in OrManyWidths \cup {U16Max}}

\* the composite moduli of the bundles and the constants of cmul_bundle
CrtModuli == {6, 10, 15, 30}

CrtConstants == {0, 1, 2, 7, 31}

CrtTests ==
    {GadgetTest(name, <<factor(Q), factor(Q)>>, 0) :
        name \in {"add_bundles", "sub_bundles"}, Q \in CrtModuli}
    \cup {GadgetTest("cmul_bundle", <<factor(Q)>>, c) : Q \in CrtModuli, c \in CrtConstants}

\* the values an argument of the test takes: every value of the first two
\* arguments when there are at most 32, values at the ends and in the middle else
ArgRange(args, k) ==
    LET Q == Product(args[k])
    IN IF Q <= 32 /\ k <= 2 THEN 0 .. (Q - 1)
       ELSE {0, 1, Q \div 3, Q \div 2, Q - 2, Q - 1} \cap (0 .. (Q - 1))

RECURSIVE ArgValuesUpTo(_, _)
ArgValuesUpTo(args, k) ==
    IF k = 0 THEN {<< >>}
    ELSE {Append(x, v) : x \in ArgValuesUpTo(args, k - 1), v \in ArgRange(args, k)}

ArgValues(args) == ArgValuesUpTo(args, Len(args))

\* the value of the k-th argument in the inputs of the run
ArgOffset(k) == Len(Flatten(SubSeq(test.args, 1, k - 1)))

ArgDigits(k) ==
    SubSeq(run.ev_inps, ArgOffset(k) + 1, ArgOffset(k) + Len(test.args[k]))

ArgValue(k) == from_mixed_radix(ArgDigits(k), test.args[k])

GadgetIdle ==
    /\ gates = << >>
    /\ output_refs = << >>
    /\ garbler = NoGarbler
    /\ wires = << >>
    /\ msgs = << >>
    /\ collected = NoCollected
    /\ result = NoResult
    /\ run = NoRun
    /\ gb_thread = NoThread
    /\ chan = << >>
    /\ yielded = << >>
    /\ routing = NoRouting
    /\ ev = NoEvaluator
    /\ gb_iter = NoIter
    /\ server = NoServer
    /\ bundles = << >>

gadgetFrame == <<garbler, wires, msgs, collected, result, test, gb_thread, chan,
                 yielded, routing, ev, ot, aesrng, gb_iter, server>>

\* the argument bundles of the test are made
GadgetArgs ==
    /\ pc = "gadget"
    /\ LET r == EvaluatorInputBundles(<< >>, test.args, 1)
       IN /\ gates' = r.b
          /\ bundles' = r.xs
    /\ pc' = "gadget_args"
    /\ UNCHANGED <<output_refs, run, gadgetFrame>>

\* the result of a gadget: Ok or the error, with the fields of InvalidArgNum
GadgetResult(r) ==
    [ok |-> r.err = NoError, err |-> r.err, values |-> << >>,
     got |-> IF r.err = "InvalidArgNum" THEN r.got ELSE 0,
     needed |-> IF r.err = "InvalidArgNum" THEN r.needed ELSE 0]

\* the gadget returned r: its bundle is output, or its error is the result
GadgetReturn(r) ==
    /\ gates' = r.b
    /\ output_refs' = IF r.err = NoError THEN r.ws ELSE << >>
    /\ run' = [run EXCEPT !.decoded = GadgetResult(r)]
    /\ pc' = "gadget_built"
    /\ UNCHANGED <<bundles, gadgetFrame>>

AtGadget(name) == pc = "gadget_args" /\ test.name = name

CallMixedRadixAddition ==
    /\ AtGadget("mixed_radix_addition")
    /\ GadgetReturn(mixed_radix_addition(gates, bundles))

\* the difference and the flag are output
CallBinSubtraction ==
    /\ AtGadget("bin_subtraction")
    /\ LET r == bin_subtraction(gates, bundles[1], bundles[2])
       IN GadgetReturn([b |-> r.b, ws |-> Append(r.ws, r.c), err |-> r.err])

CallBinLt ==
    /\ AtGadget("bin_lt")
    /\ LET r == bin_lt(gates, bundles[1], bundles[2])
       IN GadgetReturn([b |-> r.b, ws |-> <<r.w>>, err |-> r.err])

\* the sum and the carry are output
CallBinAddition ==
    /\ AtGadget("bin_addition")
    /\ LET r == bin_addition(gates, bundles[1], bundles[2])
       IN GadgetReturn([b |-> r.b, ws |-> Append(r.ws, r.c), err |-> r.err])

CallBinAdditionNoCarry ==
    /\ AtGadget("bin_addition_no_carry")
    /\ GadgetReturn(bin_addition_no_carry(gates, bundles[1], bundles[2]))

CallBinMultiplicationLowerHalf ==
    /\ AtGadget("bin_multiplication_lower_half")
    /\ GadgetReturn(bin_multiplication_lower_half(gates, bundles[1], bundles[2]))

\* or_many of the wires of the bundle; the wire returned is output
CallOrMany ==
    /\ AtGadget("or_many")
    /\ LET r == or_many(gates, bundles[1])
       IN GadgetReturn([b |-> r.b, ws |-> <<r.w>>, err |-> r.err])

CallBinMax ==
    /\ AtGadget("bin_max")
    /\ GadgetReturn(bin_max(gates, bundles))

\* the bundles of garbler inputs are made and output
CallBinGarblerInputBundles ==
    /\ AtGadget("bin_garbler_input_bundles")
    /\ LET r == bin_garbler_input_bundles(gates, test.nbits, test.n, test.opt_xs)
       IN /\ gates' = r.b
          /\ bundles' = r.xs
          /\ output_refs' = Flatten(r.xs)
          /\ run' = [run EXCEPT !.decoded = GadgetResult(r)]
    /\ pc' = "gadget_built"
    /\ UNCHANGED gadgetFrame

CallAddBundles ==
    /\ AtGadget("add_bundles")
    /\ GadgetReturn(add_bundles(gates, bundles[1], bundles[2]))

CallSubBundles ==
    /\ AtGadget("sub_bundles")
    /\ GadgetReturn(sub_bundles(gates, bundles[1], bundles[2]))

CallCmulBundle ==
    /\ AtGadget("cmul_bundle")
    /\ GadgetReturn(cmul_bundle(gates, bundles[1], test.c))

\* the digits of an argument: residues for the bundles of residues, digits in the
\* mixed radix of the moduli (bits for binary bundles) otherwise
EncodeArg(name, x, mods) ==
    IF name \in {"add_bundles", "sub_bundles", "cmul_bundle"} THEN crt(mods, x)
    ELSE as_mixed_radix(x, mods)

\* the gadgets that the tests of garble.rs build, garble and evaluate: the tests
\* classic::mixed_radix_addition and classic::or_many
GarbledGadgets == {"mixed_radix_addition", "or_many"}

\* the inputs of the circuit for the values x of the arguments
GadgetInputs(x) ==
    Flatten([k \in DOMAIN x |-> EncodeArg(test.name, x[k], test.args[k])])

\* garble(&circ) is called on the circuit of the gadget: a Garbler is made, and the
\* loop over the gates begins
GadgetGarble ==
    /\ pc = "gadget_built"
    /\ test.name \in GarbledGadgets
    /\ run.decoded.ok
    /\ \E seed \in Seeds : garbler' = GarblerNew(seed)
    /\ pc' = "garble"
    /\ UNCHANGED <<gates, output_refs, wires, msgs, collected, result, run, streamVars,
                   bundles, ot, aesrng, gb_iter, server>>

\* the digits of the arguments are encoded, the garbled circuit is evaluated on them
\* with no garbler input, and the labels that come out are decoded; should_be is the
\* sum of the arguments (mixed_radix_addition) or the plaintext evaluation (or_many,
\* through garble_test_helper)
GadgetEval ==
    /\ pc = "garbled"
    /\ test.name \in GarbledGadgets
    /\ \E x \in ArgValues(test.args) :
          LET inps == GadgetInputs(x)
              labels == GarbledCircuitEval(result.ev, gates, output_refs, << >>,
                                           EncodeEvaluatorInputs(result.en, inps))
              res == DecoderDecode(result.de, labels)
          IN run' = [run EXCEPT
                       !.gb_inps = << >>,
                       !.ev_inps = inps,
                       !.labels = labels,
                       !.decoded = [@ EXCEPT !.ok = res.ok, !.err = res.err,
                                             !.values = res.values],
                       !.should_be = IF test.name = "mixed_radix_addition"
                                     THEN <<SumSeq(x, Len(x)) % Product(test.args[1])>>
                                     ELSE CircuitEval(gates, output_refs, << >>, inps)]
    /\ pc' = "gadget_done"
    /\ UNCHANGED <<gates, output_refs, bundles, gadgetFrame>>

\* the circuit of a gadget of binary.rs or of a bundle of residues is evaluated in
\* the clear on the digits of the arguments
GadgetPlainEval ==
    /\ pc = "gadget_built"
    /\ test.name \notin GarbledGadgets
    /\ run.decoded.ok
    /\ \E x \in ArgValues(test.args) :
          LET inps == GadgetInputs(x)
              gb_inps == IF test.opt_xs.some
                         THEN Flatten([k \in DOMAIN test.opt_xs.v |->
                                          u128_to_bits(test.opt_xs.v[k], test.nbits)])
                         ELSE [i \in 1 .. NumGarblerInputs(gates) |-> 0]
          IN run' = [run EXCEPT
                       !.gb_inps = gb_inps,
                       !.ev_inps = inps,
                       !.decoded.values = CircuitEval(gates, output_refs, gb_inps, inps)]
    /\ pc' = "gadget_done"
    /\ UNCHANGED <<gates, output_refs, bundles, gadgetFrame>>

\* the garbled circuit of a gadget decodes to what the circuit evaluates to in the clear
GarbledGadgetAgrees ==
    (pc = "gadget_done" /\ test.name \in GarbledGadgets) =>
        /\ run.decoded.ok
        /\ run.decoded.values = CircuitEval(gates, output_refs, << >>, run.ev_inps)

GadgetTests ==
    MixedRadixTests \cup BinaryTests \cup CrtTests \cup AdditionTests \cup MaxTests
        \cup InputTests \cup OrManyTests

InitGadgets ==
    /\ pc = "gadget"
    /\ test \in GadgetTests
    /\ GadgetIdle
    /\ ot = NoTransfer
    /\ aesrng = NoAesRng

NextGadgets ==
    \/ GadgetArgs
    \/ CallMixedRadixAddition
    \/ CallBinSubtraction
    \/ CallBinLt
    \/ CallBinAddition
    \/ CallBinAdditionNoCarry
    \/ CallBinMultiplicationLowerHalf
    \/ CallBinMax
    \/ CallOrMany
    \/ CallBinGarblerInputBundles
    \/ CallAddBundles
    \/ CallSubBundles
    \/ CallCmulBundle
    \/ GadgetGarble
    \/ GarbleEvaluatorInput
    \/ GarbleAdd
    \/ GarbleProj
    \/ GarbleOutput
    \/ GarbleFinish
    \/ GadgetEval
    \/ GadgetPlainEval

SpecGadgets == InitGadgets /\ [][NextGadgets]_vars

GadgetDone(name) == pc = "gadget_done" /\ test.name = name

\* the gadget of the test has returned, with a result or with an error
GadgetReturned(name) == pc \in {"gadget_built", "gadget_done"} /\ test.name = name

\* the moduli of the output wires
OutputModuli == [i \in DOMAIN output_refs |-> gates[output_refs[i]].q]

\* the digits decoded from the circuit that mixed_radix_addition built are the sum of
\* the arguments modulo the product of the moduli, one digit for every modulus, and
\* the last gate adds the carry into the most significant digit
MixedRadixSum ==
    GadgetDone("mixed_radix_addition") =>
        LET mods == test.args[1]
            n == Len(mods)
            sum == SumSeq([k \in DOMAIN test.args |-> ArgValue(k)], Len(test.args))
        IN /\ run.decoded.ok
           /\ Len(output_refs) = n
           /\ OutputModuli = mods
           /\ \A i \in 1 .. n : run.decoded.values[i] < mods[i]
           /\ from_mixed_radix(run.decoded.values, mods) = sum % Product(mods)
           /\ run.should_be = <<from_mixed_radix(run.decoded.values, mods)>>
           /\ output_refs[n] = Len(gates)
           /\ n > 1 => /\ gates[output_refs[n]].kind = "Add"
                       /\ gates[gates[output_refs[n]].yref].kind = "Proj"
                       /\ gates[gates[output_refs[n]].yref].q = mods[n]

\* C11: mixed_radix_addition of at least two bundles over the same moduli returns
\* one digit for every modulus, digit i with modulus m_i, and the digits are the
\* sum of the inputs modulo the product of the moduli; the most significant digit
\* adds the carry of the digit below and no carry is computed after it
C11_MixedRadixAddition ==
    /\ GadgetReturned("mixed_radix_addition") =>
           /\ run.decoded.ok
           /\ Len(output_refs) = Len(test.args[1])
           /\ OutputModuli = test.args[1]
    /\ MixedRadixSum

\* three bundles of three digits are added and a carry wraps the product of the moduli
MixedRadixSumWraps ==
    /\ GadgetDone("mixed_radix_addition")
    /\ test.args = <<(<<3, 2, 3>>), (<<3, 2, 3>>), (<<3, 2, 3>>)>>
    /\ ArgValue(1) = 17
    /\ ArgValue(2) = 17
    /\ ArgValue(3) = 9
    /\ run.decoded.values = as_mixed_radix(7, <<3, 2, 3>>)

\* the number of bits of the bundles of a binary test
NumBits == Len(test.args[1])

\* the first n outputs, as a number
OutputNumber(n) == from_mixed_radix(SubSeq(run.decoded.values, 1, n), Bits(n))

\* what bin_lt must return: 1 iff x < y
BinLtCorrect ==
    /\ Len(run.decoded.values) = 1
    /\ run.decoded.values[1] = IF ArgValue(1) < ArgValue(2) THEN 1 ELSE 0

\* C12: bin_lt(x, y) is 1 if and only if x < y, for every x and y of n bits; it is 0
\* for y = 0 whatever x is, x = 0 included
C12_BinLt == GadgetDone("bin_lt") => BinLtCorrect

\* bin_lt is right for bundles of two bits and more unless x and y are both 0
BinLtExceptBothZero ==
    GadgetDone("bin_lt") /\ (ArgValue(1) # 0 \/ ArgValue(2) # 0) => BinLtCorrect

\* bin_lt returns 1 for x = y = 0, whatever the number of bits
BinLtBothZero ==
    GadgetDone("bin_lt") /\ ArgValue(1) = 0 /\ ArgValue(2) = 0
        => run.decoded.values = <<1>>

\* what bin_subtraction must return: the difference modulo 2^n and the flag
BinSubtractionCorrect ==
    LET n == NumBits
        x == ArgValue(1)
        y == ArgValue(2)
    IN /\ Len(run.decoded.values) = n + 1
       /\ OutputNumber(n) = ((x + Pow(2, n)) - y) % Pow(2, n)
       /\ run.decoded.values[n + 1] = IF y # 0 /\ x >= y THEN 1 ELSE 0

\* C13: bin_subtraction(x, y) returns (d, f) for every x and y of n bits, with
\* d = (x - y) mod 2^n and f = 1 exactly when y # 0 and x >= y
C13_BinSubtraction ==
    /\ GadgetReturned("bin_subtraction") => run.decoded.ok
    /\ GadgetDone("bin_subtraction") => BinSubtractionCorrect

\* bin_subtraction is right for bundles of two bits and more
BinSubtractionTwoBits ==
    /\ GadgetReturned("bin_subtraction") /\ NumBits >= 2 => run.decoded.ok
    /\ GadgetDone("bin_subtraction") => BinSubtractionCorrect

\* on bundles of one bit bin_subtraction and bin_lt return UnequalModuli
BinOneBitFails ==
    GadgetReturned("bin_subtraction") \/ GadgetReturned("bin_lt") =>
        (NumBits = 1 <=> run.decoded.err = "UnequalModuli")

\* the value of the k-th argument bundle of a test on bundles of residues
CrtArg(k) == crt_inv(test.args[k], ArgDigits(k))

\* the output bundle has the moduli of the first argument and decodes to v mod Q
CrtResultIs(v) ==
    LET primes == test.args[1]
        Q == Product(primes)
    IN /\ OutputModuli = primes
       /\ run.decoded.values = crt(primes, v % Q)
       /\ crt_inv(primes, run.decoded.values) = v % Q

\* C14: on bundles of residues of x and y modulo the primes of Q, add_bundles,
\* sub_bundles and cmul_bundle return bundles that decode to (x + y) mod Q,
\* (x - y) mod Q and (c * x) mod Q, and the i-th wire keeps the i-th modulus
C14_BundleAlgebra ==
    /\ GadgetDone("add_bundles") => CrtResultIs(CrtArg(1) + CrtArg(2))
    /\ GadgetDone("sub_bundles") =>
          CrtResultIs((CrtArg(1) + Product(test.args[1])) - CrtArg(2))
    /\ GadgetDone("cmul_bundle") => CrtResultIs(test.c * CrtArg(1))

\* 7 * 13 mod 30 has been computed on the residues modulo 2, 3 and 5
C14_Witness ==
    /\ GadgetDone("cmul_bundle")
    /\ test.args = <<(<<2, 3, 5>>)>>
    /\ test.c = 7
    /\ run.ev_inps = <<1, 1, 3>>
    /\ run.decoded.values = <<1, 1, 1>>
    /\ Len(gates) = 6

\* the circuit as it was when the gadget was called: the inputs of its arguments
GatesAtCall == EvaluatorInputBundles(<< >>, test.args, 1).b

\* the gadget returned this error and nothing was built
FailedUnbuilt(err, got, needed) ==
    /\ ~run.decoded.ok
    /\ run.decoded.err = err
    /\ run.decoded.got = got
    /\ run.decoded.needed = needed
    /\ gates = GatesAtCall
    /\ output_refs = << >>

\* C16: a gadget whose precondition is violated returns the error before it builds
\* anything: UnequalModuli from bin_addition, bin_addition_no_carry and
\* bin_multiplication_lower_half on bundles of different moduli, InvalidArgNum
\* {got, needed: 2} from bin_max on fewer than 2 bundles, InvalidArgNum
\* {got: xs.len(), needed: n} from bin_garbler_input_bundles on other than n values
C16_PreconditionErrors ==
    /\ \A name \in {"bin_addition", "bin_addition_no_carry",
                    "bin_multiplication_lower_half"} :
          GadgetReturned(name) /\ test.args[1] # test.args[2]
              => FailedUnbuilt("UnequalModuli", 0, 0)
    /\ GadgetReturned("bin_max") /\ Len(test.args) < 2
          => FailedUnbuilt("InvalidArgNum", Len(test.args), 2)
    /\ GadgetReturned("bin_garbler_input_bundles") /\ test.opt_xs.some
          /\ Len(test.opt_xs.v) # test.n
          => FailedUnbuilt("InvalidArgNum", Len(test.opt_xs.v), test.n)

\* bin_max of one bundle has returned InvalidArgNum and the circuit has the two
\* inputs of the bundle only
C16_Witness ==
    /\ GadgetReturned("bin_max")
    /\ Len(test.args) = 1
    /\ run.decoded.err = "InvalidArgNum"
    /\ run.decoded.got = 1
    /\ run.decoded.needed = 2
    /\ Len(gates) = 2

\* without a violated precondition these gadgets compute the sum with its carry,
\* the product modulo 2^n, the maximum, and the inputs with the values given
GadgetsCompute ==
    /\ GadgetDone("bin_addition") =>
          from_mixed_radix(run.decoded.values, Bits(NumBits + 1))
              = ArgValue(1) + ArgValue(2)
    /\ GadgetDone("bin_multiplication_lower_half") =>
          from_mixed_radix(run.decoded.values, Bits(NumBits))
              = (ArgValue(1) * ArgValue(2)) % Pow(2, NumBits)
    /\ GadgetDone("bin_max") =>
          \A k \in DOMAIN test.args :
              /\ ArgValue(k) <= from_mixed_radix(run.decoded.values, Bits(2))
              /\ \E j \in DOMAIN test.args :
                    ArgValue(j) = from_mixed_radix(run.decoded.values, Bits(2))
    /\ GadgetDone("bin_garbler_input_bundles") =>
          /\ Len(bundles) = test.n
          /\ \A k \in DOMAIN bundles : BundleModuli(gates, bundles[k]) = Bits(test.nbits)
          /\ run.decoded.values = run.gb_inps

(***************************************************************************)
(* The deltas of the Garbler (spec.md section 4.2), under Spec.            *)
(***************************************************************************)
\* the message the garbler sent for gate i, an input, a constant or a garbled gate
GateMsg(i) ==
    msgs[CountKind(SubSeq(gates, 1, i),
                   {"GarblerInput", "EvaluatorInput", "Constant", "Proj", "Mul"})]

\* the v-label of the wire of gate i under the garbler's delta of its modulus
VLabel(i, v) == WirePlus(wires[i], WireCmul(garbler.deltas[gates[i].q], v))

\* the wire of gate i carries, for every value, the zero-label plus the value times
\* the delta of its modulus: in the message sent for an input or a constant, and in
\* what the gate yields on the labels of every value of its input wires
WireUnderDelta(i) ==
    LET g == gates[i]
        qx == gates[g.xref].q
        qy == gates[g.yref].q
    IN CASE g.kind \in {"GarblerInput", "EvaluatorInput"} ->
               /\ GateMsg(i).zero = wires[i]
               /\ GateMsg(i).delta = garbler.deltas[g.q]
         [] g.kind = "Constant" -> GateMsg(i).wire = VLabel(i, g.val)
         [] g.kind = "Add" ->
               \A a, b \in 0 .. (g.q - 1) :
                   EvAdd(VLabel(g.xref, a), VLabel(g.yref, b)) = VLabel(i, (a + b) % g.q)
         [] g.kind = "Sub" ->
               \A a, b \in 0 .. (g.q - 1) :
                   EvSub(VLabel(g.xref, a), VLabel(g.yref, b))
                       = VLabel(i, ((a + g.q) - b) % g.q)
         [] g.kind = "Cmul" ->
               \A a \in 0 .. (g.q - 1) :
                   EvCmul(VLabel(g.xref, a), g.c) = VLabel(i, (a * g.c) % g.q)
         [] g.kind = "Proj" ->
               \A a \in 0 .. (qx - 1) :
                   EvProj(VLabel(g.xref, a), g.q, GateMsg(i).gate, g.id)
                       = VLabel(i, g.tt[a + 1])
         [] g.kind = "Mul" ->
               \A a \in 0 .. (qx - 1) : \A b \in 0 .. (qy - 1) :
                   EvMul(VLabel(g.xref, a), VLabel(g.yref, b), GateMsg(i).gate, g.id)
                       = VLabel(i, (a * b) % g.q)

\* the ciphertexts of output k are the hashes of the labels of its wire
OutputUnderDelta(k) ==
    \A v \in 0 .. (gates[output_refs[k + 1]].q - 1) :
        SentOutput(k)[v + 1] = Hash(VLabel(output_refs[k + 1], v), OutputTweak(k))

\* the garbler has a delta for exactly the moduli of the wires it has made
DeltasOfUsedModuli ==
    DOMAIN garbler.deltas = {gates[i].q : i \in 1 .. Len(wires)}

\* the Encoder holds the garbler's delta of every input modulus and encodes the
\* value of an input as the label of that value
EncoderUnderDelta ==
    /\ result.en.deltas = garbler.deltas
    /\ \A i \in DOMAIN gates :
          gates[i].kind \in {"GarblerInput", "EvaluatorInput"}
              => /\ gates[i].q \in DOMAIN result.en.deltas
                 /\ result.en.deltas[gates[i].q] = garbler.deltas[gates[i].q]
    /\ \A k \in DOMAIN GarblerInputMods : \A v \in 0 .. (GarblerInputMods[k] - 1) :
          EncodeGarblerInputs(result.en, OneInput(GarblerInputMods, k, v))[k]
              = VLabel(KthOfKind(gates, {"GarblerInput"}, k, 1), v)
    /\ pc = "evaluated" =>
          \A k \in DOMAIN run.ev_inps :
              EncodeEvaluatorInputs(result.en, run.ev_inps)[k]
                  = VLabel(KthOfKind(gates, {"EvaluatorInput"}, k, 1), run.ev_inps[k])

\* a delta, once made, stays
DeltasKept ==
    \A q \in DOMAIN garbler.deltas :
        /\ q \in DOMAIN garbler'.deltas
        /\ garbler'.deltas[q] = garbler.deltas[q]

\* C18: a Garbler has one delta for every modulus, made when the modulus is first
\* used and never changed; the label of value v of every wire of modulus q is its
\* zero-label plus v times that delta; the delta table of the Encoder that garble
\* returns holds the delta of every input modulus
C18_OneDeltaPerModulus ==
    /\ [](pc \in {"garble", "garbled", "evaluated", "decoded"} =>
            /\ DeltasOfUsedModuli
            /\ \A i \in 1 .. Len(wires) : WireUnderDelta(i)
            /\ \A k \in 0 .. (garbler.current_output - 1) : OutputUnderDelta(k)
            /\ Garbled => EncoderUnderDelta)
    /\ [][DeltasKept]_vars

\* a circuit with wires of both moduli has been garbled and evaluated: the garbler
\* made two deltas, and the second gate, of the modulus of the first, made none
C18_Witness ==
    /\ pc = "evaluated"
    /\ Len(gates) = 3
    /\ gates[1].kind = "EvaluatorInput"
    /\ gates[2].kind = "EvaluatorInput"
    /\ gates[2].q = gates[1].q
    /\ gates[3].kind = "Proj"
    /\ gates[3].q # gates[1].q
    /\ DOMAIN garbler.deltas = {2, 3}
    /\ DOMAIN result.en.deltas = {2, 3}
    /\ run.ev_inps = <<1, 0>>

(***************************************************************************)
(* The gate counter of the two parties (spec.md sections 4.2 and 6),       *)
(* under SpecStream.                                                       *)
(***************************************************************************)
\* the number of gates that use a tweak among the first n gates
TweakGates(n) == CountKind(SubSeq(gates, 1, n), {"Proj", "Mul"})

\* the label the garbler's wire i has for the value the computation gives it
LabelOfValue(i) ==
    WirePlus(wires[i],
             WireCmul(garbler.deltas[gates[i].q],
                      PlainWires(gates, run.gb_inps, run.ev_inps, i)[i]))

\* each party's counter is the number of tweak gates it has passed, so that the
\* k-th of them has the id k - 1 on both sides
CountersFollowOrder ==
    /\ garbler.current_gate = TweakGates(Len(wires))
    /\ ev.state # "failed" => ev.current_gate = TweakGates(Len(ev.wires))

\* the evaluator, with its own counter as the tweak, gets from every gate the
\* garbler sent the label of the value of the wire: the two tweaks were the same
\* (on a gate that sends nothing the evaluator may be ahead of the garbler)
SameTweak ==
    ev.state # "failed" =>
        \A i \in 1 .. Len(ev.wires) :
            /\ gates[i].kind \in {"Proj", "Mul"} => i <= Len(wires)
            /\ i <= Len(wires) => ev.wires[i] = LabelOfValue(i)

\* a counter never decreases, and a proj or a mul adds one to it
CounterStep ==
    /\ garbler'.current_gate >= garbler.current_gate
    /\ ev'.current_gate >= ev.current_gate
    /\ (Len(wires') = Len(wires) + 1 /\ gates[Len(wires')].kind \in {"Proj", "Mul"})
          => garbler'.current_gate = garbler.current_gate + 1
    /\ (ev'.state # "failed" /\ Len(ev'.wires) = Len(ev.wires) + 1
            /\ gates[Len(ev'.wires)].kind \in {"Proj", "Mul"})
          => ev'.current_gate = ev.current_gate + 1

\* C19: a Garbler and an Evaluator that run the same computation give every proj
\* and mul gate the same gate_id: both counters start at zero, go up by one at each
\* gate that uses a tweak, and the k-th such gate has the same tweak on both sides
C19_SameGateIds ==
    /\ [](Streaming =>
            /\ (Len(wires) = 0 => garbler.current_gate = 0)
            /\ (Len(ev.wires) = 0 => ev.current_gate = 0)
            /\ CountersFollowOrder
            /\ SameTweak)
    /\ [][CounterStep]_vars

\* both parties have passed the three tweak gates of one computation, the garbler
\* first, and the evaluator holds the label of the result
C19_Witness ==
    /\ test.name = "mul_proj_mul"
    /\ pc = "stream"
    /\ garbler.current_gate = 3
    /\ ev.current_gate = 3
    /\ Len(ev.wires) = 5
    /\ ev.wires[5] = LabelOfValue(5)
    /\ run.gb_inps = <<2>>
    /\ run.ev_inps = <<2>>

(***************************************************************************)
(* Oblivious transfer (src/src/ot/chou_orlandi.rs, spec.md section 4.6):   *)
(* the sender and the receiver of ChouOrlandiOT run as two threads over a  *)
(* stream of two directions.  The group is a group of prime order, its     *)
(* points written by their multiple of the base point.                     *)
(***************************************************************************)
\* the order of the group
GroupOrder == 5

\* Scalar::random: any scalar
Scalars == 0 .. (GroupOrder - 1)

\* &x * &RISTRETTO_BASEPOINT_TABLE
BasepointMul(x) == x % GroupOrder

\* the product of a point and a scalar, the sum and the difference of two points
PointMul(P, x) == (P * x) % GroupOrder
PointAdd(P, R) == (P + R) % GroupOrder
PointSub(P, R) == ((P + GroupOrder) - R) % GroupOrder

\* utils::hash_pt_block: a block for every point, distinct points apart
hash_pt_block(P) == ((P * 7919) + 104729) % BlockMod

\* encrypt and decrypt: utils::xor_block
encrypt(k, m) == Xor(k, m)
decrypt(k, c) == Xor(k, c)

\* what is in flight on the stream: the bytes of a point, which decode or do not,
\* and the bytes of a block
PointOnStream(P) == [kind |-> "pt", v |-> P, valid |-> TRUE]
BlockOnStream(b) == [kind |-> "block", v |-> b, valid |-> TRUE]

\* stream::read_pt on the bytes read: the point, or the error of a malformed point
read_pt(bytes) ==
    IF bytes.kind = "pt" /\ bytes.valid THEN [err |-> NoError, v |-> bytes.v]
    ELSE [err |-> "malformed point", v |-> 0]

\* send: the keys of the two messages, from the point r of the receiver
SenderKeys(r, s, y) ==
    <<hash_pt_block(PointMul(r, y)), hash_pt_block(PointMul(PointSub(r, s), y))>>

\* a receiver whose point leaves its choice out
ReceiverPoint_NoChoice(b, s, x) == BasepointMul(x)

\* receive: the point r = c * s + x * B, with c one for a true choice
ReceiverPoint(b, s, x) ==
    PointAdd(PointMul(s, IF b THEN 1 ELSE 0), BasepointMul(x))

\* a collect that keeps the blocks of the transfers before the error
Collect_Partial(blocks, err) ==
    IF err # NoError THEN [ok |-> FALSE, err |-> err, blocks |-> blocks]
    ELSE [ok |-> TRUE, err |-> NoError, blocks |-> blocks]

\* receive: collect of the results of the transfers into Result<Vec<Block>, Error>,
\* the first error or else all the blocks
Collect(blocks, err) ==
    IF err # NoError THEN [ok |-> FALSE, err |-> err, blocks |-> << >>]
    ELSE [ok |-> TRUE, err |-> NoError, blocks |-> blocks]

\* the largest batch, the blocks the messages are drawn from, and the number of
\* failures of the stream in one exchange
MaxTransfers == 2
OTBlocks == {3, BlockMod - 2}
MaxFaults == 2

RECURSIVE SeqsUpTo(_, _)
SeqsUpTo(S, n) ==
    IF n = 0 THEN {<< >>}
    ELSE LET shorter == SeqsUpTo(S, n - 1)
         IN shorter \cup {Append(q, x) : q \in {t \in shorter : Len(t) = n - 1}, x \in S}

\* the sender before send and the receiver before receive
SenderNew ==
    [pc |-> "write_s", y |-> 0, s |-> 0, i |-> 0, c |-> <<0, 0>>, keys |-> << >>,
     ops |-> 0, failed |-> 0, err |-> NoError]
\* a receiver that begins with the read of a ciphertext, not with the read of s
ReceiverNew_AwaitsCiphertext ==
    [pc |-> "read_c0", s |-> 0, i |-> 0, k |-> 0, c0 |-> 0, keys |-> << >>,
     blocks |-> << >>, ops |-> 0, failed |-> 0, ret |-> Collect(<< >>, "running")]

\* receive: the first call on the stream is read_pt
ReceiverNew ==
    [pc |-> "read_s", s |-> 0, i |-> 0, k |-> 0, c0 |-> 0, keys |-> << >>,
     blocks |-> << >>, ops |-> 0, failed |-> 0, ret |-> Collect(<< >>, "running")]

InitOT ==
    /\ pc = "ot"
    /\ test = [name |-> "chou_orlandi", Q |-> 0]
    /\ GadgetIdle
    /\ aesrng = NoAesRng
    /\ \E inputs \in SeqsUpTo(OTBlocks \X OTBlocks, MaxTransfers) :
          \E choices \in SeqsUpTo(BOOLEAN, MaxTransfers) :
              /\ Len(choices) = Len(inputs)
              /\ ot = [state |-> "running", inputs |-> inputs, choices |-> choices,
                       sender |-> SenderNew, receiver |-> ReceiverNew,
                       to_receiver |-> << >>, to_sender |-> << >>, faults |-> 0]

otFrame == <<gates, output_refs, pc, garbler, wires, msgs, collected, result, run, test,
             gb_thread, chan, yielded, routing, ev, bundles, aesrng, gb_iter, server>>

OTRunning == pc = "ot" /\ ot.state = "running"

NumTransfers == Len(ot.inputs)

\* a call on the stream that succeeded, and the one that failed
SenderDid(sd) == [sd EXCEPT !.ops = @ + 1]
SenderFailed(sd, err) ==
    [sd EXCEPT !.ops = @ + 1, !.failed = @ + 1, !.pc = "err", !.err = err]
ReceiverDid(rc) == [rc EXCEPT !.ops = @ + 1]
ReceiverFailed(rc, err) ==
    [rc EXCEPT !.ops = @ + 1, !.failed = @ + 1, !.pc = "err",
               !.ret = Collect(rc.blocks, err)]

\* send: y is drawn and s = y * B is written
SenderWriteS ==
    /\ OTRunning
    /\ ot.sender.pc = "write_s"
    /\ \E y \in Scalars :
          ot' = [ot EXCEPT
                   !.sender = [SenderDid(@) EXCEPT !.pc = "loop", !.y = y,
                                                   !.s = BasepointMul(y)],
                   !.to_receiver = Append(@, PointOnStream(BasepointMul(y)))]
    /\ UNCHANGED otFrame

\* send: the point of the next transfer is read, and the two messages encrypted
SenderReadR ==
    /\ OTRunning
    /\ ot.sender.pc = "loop"
    /\ ot.sender.i < NumTransfers
    /\ ot.to_sender # << >>
    /\ LET sd == ot.sender
           r == read_pt(Head(ot.to_sender))
           ks == SenderKeys(r.v, sd.s, sd.y)
           input == ot.inputs[sd.i + 1]
       IN ot' = [ot EXCEPT
                   !.to_sender = Tail(@),
                   !.sender =
                       IF r.err # NoError THEN SenderFailed(sd, r.err)
                       ELSE [SenderDid(sd) EXCEPT
                               !.pc = "write_c0",
                               !.keys = Append(@, ks),
                               !.c = <<encrypt(ks[1], input[1]),
                                       encrypt(ks[2], input[2])>>]]
    /\ UNCHANGED otFrame

\* send: write_block(c0)
SenderWriteC0 ==
    /\ OTRunning
    /\ ot.sender.pc = "write_c0"
    /\ ot' = [ot EXCEPT !.sender = [SenderDid(@) EXCEPT !.pc = "write_c1"],
                        !.to_receiver = Append(@, BlockOnStream(ot.sender.c[1]))]
    /\ UNCHANGED otFrame

\* send: write_block(c1), and on to the next input
SenderWriteC1 ==
    /\ OTRunning
    /\ ot.sender.pc = "write_c1"
    /\ ot' = [ot EXCEPT !.sender = [SenderDid(@) EXCEPT !.pc = "loop", !.i = @ + 1],
                        !.to_receiver = Append(@, BlockOnStream(ot.sender.c[2]))]
    /\ UNCHANGED otFrame

\* send: Ok(()) after the last input
SenderReturn ==
    /\ OTRunning
    /\ ot.sender.pc = "loop"
    /\ ot.sender.i = NumTransfers
    /\ ot' = [ot EXCEPT !.sender.pc = "ok"]
    /\ UNCHANGED otFrame

\* send: a read or a write of the stream fails
SenderIoError ==
    /\ OTRunning
    /\ ot.faults < MaxFaults
    /\ \/ ot.sender.pc \in {"write_s", "write_c0", "write_c1"}
       \/ ot.sender.pc = "loop" /\ ot.sender.i < NumTransfers
    /\ ot' = [ot EXCEPT !.sender = SenderFailed(@, "io"), !.faults = @ + 1]
    /\ UNCHANGED otFrame

\* receive: the point s of the sender is read
ReceiverReadS ==
    /\ OTRunning
    /\ ot.receiver.pc = "read_s"
    /\ ot.to_receiver # << >>
    /\ LET s == read_pt(Head(ot.to_receiver))
       IN ot' = [ot EXCEPT
                   !.to_receiver = Tail(@),
                   !.receiver = IF s.err # NoError THEN ReceiverFailed(@, s.err)
                                ELSE [ReceiverDid(@) EXCEPT !.pc = "map", !.s = s.v]]
    /\ UNCHANGED otFrame

\* receive: x is drawn, the point r of the next choice is written and the key made
ReceiverWriteR ==
    /\ OTRunning
    /\ ot.receiver.pc = "map"
    /\ ot.receiver.i < NumTransfers
    /\ \E x \in Scalars :
          LET rc == ot.receiver
              k == hash_pt_block(PointMul(rc.s, x))
          IN ot' = [ot EXCEPT
                      !.receiver = [ReceiverDid(@) EXCEPT !.pc = "read_c0", !.k = k,
                                                          !.keys = Append(@, k)],
                      !.to_sender =
                          Append(@, PointOnStream(
                                        ReceiverPoint(ot.choices[rc.i + 1], rc.s, x)))]
    /\ UNCHANGED otFrame

\* receive: read_block, the first ciphertext
ReceiverReadC0 ==
    /\ OTRunning
    /\ ot.receiver.pc = "read_c0"
    /\ ot.to_receiver # << >>
    /\ ot' = [ot EXCEPT
                !.to_receiver = Tail(@),
                !.receiver = [ReceiverDid(@) EXCEPT !.pc = "read_c1",
                                                    !.c0 = Head(ot.to_receiver).v]]
    /\ UNCHANGED otFrame

\* receive: read_block, the second ciphertext; the chosen one is decrypted
ReceiverReadC1 ==
    /\ OTRunning
    /\ ot.receiver.pc = "read_c1"
    /\ ot.to_receiver # << >>
    /\ LET rc == ot.receiver
           c1 == Head(ot.to_receiver).v
           c == IF ot.choices[rc.i + 1] THEN c1 ELSE rc.c0
       IN ot' = [ot EXCEPT
                   !.to_receiver = Tail(@),
                   !.receiver = [ReceiverDid(@) EXCEPT
                                   !.pc = "map", !.i = @ + 1,
                                   !.blocks = Append(@, decrypt(rc.k, c))]]
    /\ UNCHANGED otFrame

\* receive: every transfer gave a block, collect returns them
ReceiverReturn ==
    /\ OTRunning
    /\ ot.receiver.pc = "map"
    /\ ot.receiver.i = NumTransfers
    /\ ot' = [ot EXCEPT !.receiver.pc = "ok",
                        !.receiver.ret = Collect(ot.receiver.blocks, NoError)]
    /\ UNCHANGED otFrame

\* receive: a read or a write of the stream fails
ReceiverIoError ==
    /\ OTRunning
    /\ ot.faults < MaxFaults
    /\ \/ ot.receiver.pc \in {"read_s", "read_c0", "read_c1"}
       \/ ot.receiver.pc = "map" /\ ot.receiver.i < NumTransfers
    /\ ot' = [ot EXCEPT !.receiver = ReceiverFailed(@, "io"), !.faults = @ + 1]
    /\ UNCHANGED otFrame

\* the stream: the bytes of the next point of a direction arrive as bytes that are
\* not a point
MalformedPoint ==
    /\ OTRunning
    /\ ot.faults < MaxFaults
    /\ \/ /\ ot.to_receiver # << >>
          /\ Head(ot.to_receiver).kind = "pt"
          /\ Head(ot.to_receiver).valid
          /\ ot' = [ot EXCEPT !.to_receiver[1].valid = FALSE, !.faults = @ + 1]
       \/ /\ ot.to_sender # << >>
          /\ Head(ot.to_sender).kind = "pt"
          /\ Head(ot.to_sender).valid
          /\ ot' = [ot EXCEPT !.to_sender[1].valid = FALSE, !.faults = @ + 1]
    /\ UNCHANGED otFrame

NextOT ==
    \/ SenderWriteS
    \/ SenderReadR
    \/ SenderWriteC0
    \/ SenderWriteC1
    \/ SenderReturn
    \/ SenderIoError
    \/ ReceiverReadS
    \/ ReceiverWriteR
    \/ ReceiverReadC0
    \/ ReceiverReadC1
    \/ ReceiverReturn
    \/ ReceiverIoError
    \/ MalformedPoint

SpecOT == InitOT /\ [][NextOT]_vars

(***************************************************************************)
(* Properties of the oblivious transfer, under SpecOT.                     *)
(***************************************************************************)
\* the message of transfer i the receiver chose
ChosenMessage(i) == IF ot.choices[i] THEN ot.inputs[i][2] ELSE ot.inputs[i][1]

\* the key the sender made for the message the receiver chose in transfer i
ChosenKey(i) == IF ot.choices[i] THEN ot.sender.keys[i][2] ELSE ot.sender.keys[i][1]

\* the receiver's key of every transfer both parties have reached is the sender's
\* key of the chosen message
KeysAgree ==
    \A i \in 1 .. Len(ot.sender.keys) :
        i <= Len(ot.receiver.keys) /\ ot.receiver.keys[i] = ChosenKey(i)

\* the blocks the receiver has so far are the chosen messages, in order
BlocksInOrder(blocks) ==
    \A i \in 1 .. Len(blocks) : blocks[i] = ChosenMessage(i)

\* C15: over a reliable stream, receive returns exactly as many blocks as there
\* are transfers and the i-th is m1_i for a true choice and m0_i otherwise, the
\* receiver's key being the sender's key of the chosen message
C15_ReceiveChosen ==
    (OTRunning /\ ot.faults = 0) =>
        /\ ot.sender.pc # "err"
        /\ ot.receiver.pc # "err"
        /\ KeysAgree
        /\ BlocksInOrder(ot.receiver.blocks)
        /\ ot.receiver.pc = "ok" =>
              /\ ot.receiver.ret.ok
              /\ Len(ot.receiver.ret.blocks) = NumTransfers
              /\ BlocksInOrder(ot.receiver.ret.blocks)
              /\ ot.receiver.ops = 1 + (3 * NumTransfers)
        /\ ot.sender.pc = "ok" => ot.sender.ops = 1 + (3 * NumTransfers)

\* a batch of two transfers, the first choice true and the second false, the two
\* messages of a pair different, came through a stream that did not fail
C15_Witness ==
    /\ OTRunning
    /\ ot.faults = 0
    /\ ot.sender.pc = "ok"
    /\ ot.receiver.pc = "ok"
    /\ ot.choices = <<TRUE, FALSE>>
    /\ ot.inputs[1][1] # ot.inputs[1][2]
    /\ ot.inputs[2][1] # ot.inputs[2][2]
    /\ ot.inputs[1] # ot.inputs[2]
    /\ ot.sender.y = 2
    /\ ot.receiver.ret = Collect(<<ot.inputs[1][2], ot.inputs[2][1]>>, NoError)

\* a party that has failed makes no call on the stream and writes nothing
FailedPartyStops ==
    /\ ot.sender.pc = "err" =>
          /\ ot'.sender = ot.sender
          /\ Len(ot'.to_receiver) <= Len(ot.to_receiver)
    /\ ot.receiver.pc = "err" =>
          /\ ot'.receiver = ot.receiver
          /\ Len(ot'.to_sender) <= Len(ot.to_sender)

\* C20: a read, a write or the decoding of a point that fails makes send or receive
\* return the error at that step; the party makes no further call on the stream,
\* and receive returns no block, not even those of the transfers before
C20_FailWithoutPartialResults ==
    /\ [](OTRunning =>
            /\ (ot.sender.failed > 0) <=> (ot.sender.pc = "err")
            /\ (ot.receiver.failed > 0) <=> (ot.receiver.pc = "err")
            /\ ot.sender.failed <= 1
            /\ ot.receiver.failed <= 1
            /\ ot.sender.pc = "err" => ot.sender.err # NoError
            /\ ot.receiver.pc = "err" =>
                  /\ ~ot.receiver.ret.ok
                  /\ ot.receiver.ret.err # NoError
                  /\ ot.receiver.ret.blocks = << >>)
    /\ [][OTRunning => FailedPartyStops]_vars

\* the receiver had the block of the first transfer when the second failed, and
\* returned the error with no block; the sender failed on a point that did not decode
C20_Witness ==
    /\ OTRunning
    /\ NumTransfers = 2
    /\ ot.receiver.pc = "err"
    /\ ot.receiver.i = 1
    /\ Len(ot.receiver.blocks) = 1
    /\ ot.receiver.ret = Collect(ot.receiver.blocks, "io")
    /\ ot.sender.pc = "err"
    /\ ot.sender.err = "malformed point"
    /\ ot.sender.i = 1

(***************************************************************************)
(* AesRng (src/src/rand_aes.rs, spec.md section 4.7): AES under the seed   *)
(* as the key, on the number of the block.                                 *)
(***************************************************************************)
\* the bytes of a block of AES
ChunkBytes == 16

\* Aes128::encrypt_u8: the sixteen bytes of the encryption of block m under the key
Aes128Encrypt(key, m) ==
    [j \in 1 .. ChunkBytes |->
        ((key * 31) + (m * 17) + (j * 7) + ((key + 1) * (m + 1) * j)) % 256]

\* a counter that starts at one
CounterBlock_FromOne(i) == i + 1

\* _mm_set_epi64(0, _mm_set_pi32(0, i as i32)): the block whose low 32 bits are the
\* index of the chunk; the buffers here have far fewer than 2^31 chunks
CounterBlock(i) == i

\* AesRng::new
AesRngNew(seed) == [aes |-> seed]

\* the loop of random over bytes.chunks_mut(16).enumerate(), from chunk i on
RECURSIVE RandomChunks(_, _, _)
RandomChunks(rng, bytes, i) ==
    IF i * ChunkBytes >= Len(bytes) THEN bytes
    ELSE LET c == Aes128Encrypt(rng.aes, CounterBlock(i))
             filled == [p \in DOMAIN bytes |->
                           IF p > i * ChunkBytes /\ p <= (i + 1) * ChunkBytes
                           THEN c[p - (i * ChunkBytes)] ELSE bytes[p]]
         IN RandomChunks(rng, filled, i + 1)

\* AesRng::random: the assertion on the length, then the loop
random(rng, bytes) ==
    IF (Len(bytes) % ChunkBytes) # 0 THEN [panic |-> TRUE, bytes |-> bytes]
    ELSE [panic |-> FALSE, bytes |-> RandomChunks(rng, bytes, 0)]

\* the number of generators, of calls of random, and of blocks of a buffer
MaxRngs == 2
MaxCalls == 3
MaxBlocks == 3

\* the lengths of the buffers: the multiples of 16 and lengths between them
BufferLens ==
    {ChunkBytes * k : k \in 0 .. MaxBlocks}
        \cup {(ChunkBytes * k) + r : k \in {0, 1}, r \in {1, 8}}

\* the buffers random is called on: of these lengths, all zero or all ones
Buffers == {[p \in 1 .. n |-> fill] : n \in BufferLens, fill \in {0, 255}}

aesFrame == <<gates, output_refs, pc, garbler, wires, msgs, collected, result, run, test,
              gb_thread, chan, yielded, routing, ev, bundles, ot, gb_iter, server>>

InitRng ==
    /\ pc = "aesrng"
    /\ test = [name |-> "aesrng", Q |-> 0]
    /\ GadgetIdle
    /\ ot = NoTransfer
    /\ aesrng = [state |-> "running", rngs |-> << >>, calls |-> << >>]

\* AesRng::new(seed)
CallAesRngNew ==
    /\ pc = "aesrng"
    /\ Len(aesrng.rngs) < MaxRngs
    /\ \E seed \in Seeds :
          aesrng' = [aesrng EXCEPT !.rngs = Append(@, AesRngNew(seed))]
    /\ UNCHANGED aesFrame

\* rng.random(&mut bytes) on one of the generators
CallRandom ==
    /\ pc = "aesrng"
    /\ Len(aesrng.calls) < MaxCalls
    /\ \E g \in DOMAIN aesrng.rngs : \E bytes \in Buffers :
          LET r == random(aesrng.rngs[g], bytes)
          IN aesrng' = [aesrng EXCEPT
                          !.calls = Append(@, [rng |-> g, before |-> bytes,
                                               panic |-> r.panic, bytes |-> r.bytes])]
    /\ UNCHANGED aesFrame

NextRng ==
    \/ CallAesRngNew
    \/ CallRandom

SpecRng == InitRng /\ [][NextRng]_vars

\* the seed of the generator of a call
SeedOf(call) == aesrng.rngs[call.rng].aes

\* the i-th block of sixteen bytes of a buffer, counted from zero
BlockOf(bytes, i) == SubSeq(bytes, (ChunkBytes * i) + 1, ChunkBytes * (i + 1))

\* a call that returned filled block i of the buffer with AES_seed(i)
FilledFromZero(call) ==
    /\ Len(call.bytes) = Len(call.before)
    /\ \A i \in 0 .. ((Len(call.bytes) \div ChunkBytes) - 1) :
          BlockOf(call.bytes, i) = Aes128Encrypt(SeedOf(call), i)

\* of two calls under the same seed, the shorter output begins the longer
SameSeedSamePrefix(c1, c2) ==
    (SeedOf(c1) = SeedOf(c2) /\ Len(c1.bytes) <= Len(c2.bytes))
        => SubSeq(c2.bytes, 1, Len(c1.bytes)) = c1.bytes

RandomCalls == {aesrng.calls[k] : k \in DOMAIN aesrng.calls}

\* C17: the output of AesRng is a function of the seed: random fills block i of the
\* buffer with AES_seed(i), from zero in every call, so that generators of one seed
\* give the same output and calls with a <= b blocks agree on the first a blocks; a
\* buffer whose length is not a multiple of 16 is rejected by the assertion
C17_AesRngDeterministic ==
    pc = "aesrng" =>
        /\ \A c \in RandomCalls :
              /\ c.panic <=> (Len(c.before) % 16) # 0
              /\ c.panic => c.bytes = c.before
              /\ ~c.panic => FilledFromZero(c)
        /\ \A c1, c2 \in {c \in RandomCalls : ~c.panic} : SameSeedSamePrefix(c1, c2)

\* one generator filled a buffer of three blocks and then a buffer of one block,
\* a second generator of the same seed filled a buffer of two blocks, and the
\* buffers held other bytes before
C17_Witness ==
    /\ pc = "aesrng"
    /\ Len(aesrng.rngs) = 2
    /\ aesrng.rngs[1] = aesrng.rngs[2]
    /\ Len(aesrng.calls) = 3
    /\ aesrng.calls[1].rng = 1
    /\ aesrng.calls[2].rng = 1
    /\ aesrng.calls[3].rng = 2
    /\ Len(aesrng.calls[1].bytes) = 48
    /\ Len(aesrng.calls[2].bytes) = 16
    /\ Len(aesrng.calls[3].bytes) = 32
    /\ \A k \in 1 .. 3 :
          /\ ~aesrng.calls[k].panic
          /\ aesrng.calls[k].bytes # aesrng.calls[k].before
    /\ aesrng.calls[2].bytes = BlockOf(aesrng.calls[1].bytes, 0)
    /\ BlockOf(aesrng.calls[3].bytes, 1) = BlockOf(aesrng.calls[1].bytes, 1)
    /\ BlockOf(aesrng.calls[1].bytes, 1) # BlockOf(aesrng.calls[1].bytes, 0)

\* a buffer of seventeen bytes was rejected
AesRngRejected ==
    \E c \in RandomCalls : c.panic /\ Len(c.before) = 17

(***************************************************************************)
(* bin_addition_no_carry against bin_addition.                             *)
(***************************************************************************)
\* the sum bundle bin_addition returns for the arguments of the test, evaluated
\* on the inputs of the run
BinAdditionSum ==
    LET r == bin_addition(GatesAtCall, bundles[1], bundles[2])
    IN CircuitEval(r.b, r.ws, run.gb_inps, run.ev_inps)

\* what bin_addition_no_carry must return: the n wires of the sum of bin_addition
BinAdditionNoCarryCorrect ==
    /\ Len(output_refs) = NumBits
    /\ Len(run.decoded.values) = NumBits
    /\ run.decoded.values = BinAdditionSum
    /\ OutputNumber(NumBits) = (ArgValue(1) + ArgValue(2)) % (Pow(2, NumBits))

\* C21: for every width n >= 1 and all x, y of n bits bin_addition_no_carry(x, y)
\* returns exactly n wires, bit for bit the sum bundle of bin_addition(x, y), which
\* is (x + y) mod 2^n
C21_BinAdditionNoCarry ==
    GadgetDone("bin_addition_no_carry") => BinAdditionNoCarryCorrect

\* bin_addition_no_carry is right for bundles of two bits and more
BinAdditionNoCarryTwoBits ==
    GadgetDone("bin_addition_no_carry") /\ NumBits >= 2 => BinAdditionNoCarryCorrect

\* on bundles of one bit bin_addition_no_carry returns two wires: the sum bit and
\* the sum of x, y and the carry, which is x or y
BinAdditionNoCarryOneBit ==
    GadgetDone("bin_addition_no_carry") /\ NumBits = 1 =>
        /\ Len(output_refs) = 2
        /\ run.decoded.values =
              <<(ArgValue(1) + ArgValue(2)) % 2,
                IF ArgValue(1) + ArgValue(2) > 0 THEN 1 ELSE 0>>

\* bin_addition_no_carry returned on two bundles of three bits whose sum is 8 or more
BinAdditionNoCarryWraps ==
    /\ GadgetDone("bin_addition_no_carry")
    /\ NumBits = 3
    /\ ArgValue(1) + ArgValue(2) >= 8
    /\ ArgValue(1) # ArgValue(2)

(***************************************************************************)
(* The input-routing layer of streaming_test (recv_func).                  *)
(***************************************************************************)
\* the number of messages of this type among the first p yielded
RECURSIVE YieldedOfType(_, _)
YieldedOfType(type, p) ==
    IF p = 0 THEN 0
    ELSE YieldedOfType(type, p - 1) + (IF yielded[p].type = type THEN 1 ELSE 0)

\* what the routing layer must return for the p-th message of the iterator
Routed(p) ==
    LET m == yielded[p]
        k == YieldedOfType(m.type, p)
    IN CASE m.type = "UnencodedGarblerInput" ->
                GarblerInputMsg(WirePlus(m.zero, WireCmul(m.delta, run.gb_inps[k])))
         [] m.type = "UnencodedEvaluatorInput" ->
                EvaluatorInputMsg(WirePlus(m.zero, WireCmul(m.delta, run.ev_inps[k])))
         [] OTHER -> m

UnencodedTypes == {"UnencodedGarblerInput", "UnencodedEvaluatorInput"}

\* recv_func panicked: the message it pulled is for an input that has no value left
RoutingPanicked ==
    ev.err \in {"not enough garbler inputs!", "not enough evaluator inputs!"}

NoValueLeft(m) ==
    \/ m.type = "UnencodedGarblerInput" /\ routing.gb_inp_iter = Len(run.gb_inps)
          /\ ev.err = "not enough garbler inputs!"
    \/ m.type = "UnencodedEvaluatorInput" /\ routing.ev_inp_iter = Len(run.ev_inps)
          /\ ev.err = "not enough evaluator inputs!"

\* C22: the routing layer replaces the k-th UnencodedGarblerInput{zero, delta} by
\* GarblerInput(zero + delta * x_k), x_k the k-th garbler input, the k-th
\* UnencodedEvaluatorInput likewise with the k-th evaluator input, and passes every
\* other message on unchanged at the same position; the Evaluator never receives
\* an Unencoded message, and each input value is consumed exactly once, in order;
\* a message for an input that has no value left is not passed on (recv_func panics)
C22_InputRouting ==
    Streaming =>
        /\ Len(routing.returned) = Len(yielded) - (IF RoutingPanicked THEN 1 ELSE 0)
        /\ RoutingPanicked => NoValueLeft(yielded[Len(yielded)])
        /\ routing.gb_inp_iter
              = YieldedOfType("UnencodedGarblerInput", Len(routing.returned))
        /\ routing.ev_inp_iter
              = YieldedOfType("UnencodedEvaluatorInput", Len(routing.returned))
        /\ routing.gb_inp_iter <= Len(run.gb_inps)
        /\ routing.ev_inp_iter <= Len(run.ev_inps)
        /\ \A p \in DOMAIN routing.returned : routing.returned[p] = Routed(p)
        /\ \A p \in DOMAIN routing.returned : routing.returned[p].type \notin UnencodedTypes
        /\ \A i \in DOMAIN ev.wires :
              gates[i].kind \in {"GarblerInput", "EvaluatorInput"} =>
                  \E p \in DOMAIN routing.returned :
                      /\ routing.returned[p].type = gates[i].kind
                      /\ routing.returned[p].wire = ev.wires[i]
                      /\ ev.wires[i] = VLabel(i, PlainWires(gates, run.gb_inps,
                                                           run.ev_inps, i)[i])

\* streaming_test was called without a garbler input: recv_func panicked on the
\* first message, the iterator went with it, and the garbler thread panicked in send
RecvPanicDropsIterator ==
    /\ pc = "stream"
    /\ run.gb_inps = << >>
    /\ ev.state = "failed"
    /\ ev.err = "not enough garbler inputs!"
    /\ Len(yielded) = 1
    /\ routing.returned = << >>
    /\ gb_iter.state = "dropped"
    /\ chan = << >>
    /\ gb_thread.state = "panicked"
    /\ gb_thread.panic = SendExpect

\* the iterator of the streaming test is dropped only in the unwinding of a panic of
\* the evaluator, and nothing stays queued once it is dropped
PanicDropsIterator ==
    (Streaming /\ gb_iter.state = "dropped") =>
        /\ ev.state = "failed"
        /\ RoutingPanicked
        /\ chan = << >>
        /\ gb_thread.state \in {"running", "sending", "panicked", "done"}

\* streaming_test was called on the sum of many garbler inputs without a value for
\* them: the channel was full, recv_func pulled the first message and panicked, the
\* send that waited took the freed slot and the garbler made its next call before the
\* iterator was dropped, and the thread panicked in the send after it
SendBetweenPanicAndDrop ==
    /\ pc = "stream"
    /\ test.name = "add_many"
    /\ run.gb_inps = << >>
    /\ ev.err = "not enough garbler inputs!"
    /\ Len(yielded) = 1
    /\ gb_iter.state = "dropped"
    /\ Len(msgs) = ChannelCapacity + 2
    /\ gb_thread.state = "panicked"

\* recv_func has panicked and streaming_test has not unwound yet: the iterator lives,
\* and the garbler thread has completed a send into the slot that was freed
SendAfterPanic ==
    /\ pc = "stream"
    /\ RoutingPanicked
    /\ gb_iter.state = "live"
    /\ Len(chan) = ChannelCapacity
    /\ Len(yielded) = 1

\* a multiplication mod 5 of 4 and 3: a garbler input, an evaluator input, a
\* garbled gate and the output ciphertexts went through the routing layer, the
\* two inputs encoded to labels that are not the zero-labels
C22_Witness ==
    /\ pc = "stream_decoded"
    /\ test = [name |-> "multiplication", Q |-> 5]
    /\ run.gb_inps = <<4>>
    /\ run.ev_inps = <<3>>
    /\ Len(routing.returned) = 4
    /\ yielded[1].type = "UnencodedGarblerInput"
    /\ yielded[2].type = "UnencodedEvaluatorInput"
    /\ routing.returned[1] = GarblerInputMsg(WirePlus(yielded[1].zero,
                                                      WireCmul(yielded[1].delta, 4)))
    /\ routing.returned[2] = EvaluatorInputMsg(WirePlus(yielded[2].zero,
                                                        WireCmul(yielded[2].delta, 3)))
    /\ routing.returned[1].wire # yielded[1].zero
    /\ routing.returned[3] = yielded[3]
    /\ routing.returned[3].type = "GarbledGate"
    /\ routing.returned[4] = yielded[4]
    /\ routing = [gb_inp_iter |-> 1, ev_inp_iter |-> 1, returned |-> routing.returned]

\* twenty-two garbler inputs mod 3 went through the routing layer, each encoded
\* with the value at its own position
RoutedInOrder ==
    /\ Streaming
    /\ test.name = "add_many"
    /\ test.Q = 3
    /\ routing.gb_inp_iter = MaxStreamInputs
    /\ \A p \in 1 .. MaxStreamInputs :
          routing.returned[p].wire =
              WirePlus(yielded[p].zero, WireCmul(yielded[p].delta, p % 3))

(***************************************************************************)
(* The carries of mixed_radix_addition.                                    *)
(***************************************************************************)
\* the state of the loop of mixed_radix_addition after digit i of the test
RECURSIVE LoopStateAfter(_)
LoopStateAfter(i) ==
    IF i = 0 THEN AfterDigit(GatesAtCall, 0, 0, 0, << >>)
    ELSE LET prev == LoopStateAfter(i - 1)
         IN IF prev.err # NoError THEN prev ELSE MixedRadixStep(prev, bundles, i)

\* the greatest value the sum of digit i and the carry into it can take, and the
\* greatest carry out of digit i
RECURSIVE MaxVal(_)
MaxVal(i) ==
    (Len(test.args) * (test.args[1][i] - 1))
        + (IF i = 1 THEN 0 ELSE MaxVal(i - 1) \div test.args[1][i - 1])

MaxCarry(i) == MaxVal(i) \div test.args[1][i]

\* the sum of the digits i of the arguments of the run, and the carry out of digit i
DigitSum(i) == SumSeq([k \in DOMAIN test.args |-> ArgDigits(k)[i]], Len(test.args))

RECURSIVE FullCarry(_)
FullCarry(i) ==
    IF i = 0 THEN 0 ELSE (DigitSum(i) + FullCarry(i - 1)) \div test.args[1][i]

\* the wires a wire is the sum of
RECURSIVE AddLeaves(_, _)
AddLeaves(gs, w) ==
    IF gs[w].kind = "Add" THEN AddLeaves(gs, gs[w].xref) \cup AddLeaves(gs, gs[w].yref)
    ELSE {w}

\* every wire of the sum w
RECURSIVE AddWires(_, _)
AddWires(gs, w) ==
    IF gs[w].kind = "Add"
    THEN {w} \cup AddWires(gs, gs[w].xref) \cup AddWires(gs, gs[w].yref)
    ELSE {w}

\* the values of max_val and of next_max_val fit the u16 they are computed in, and
\* so do the moduli max_val + 1 and next_max_val + 1 of the wires made from them
CarriesFitU16 ==
    LET n == Len(test.args[1])
    IN /\ \A i \in 1 .. (n - 1) : MaxVal(i) < U16Max
       /\ n > 1 => MaxVal(n) <= U16Max

\* digit i, not the most significant: the loop has built its carry wire, digit_carry
\* and carry_carry with the moduli claimed
CarriesBuilt(i, st) ==
    LET N == Len(test.args)
        mods == test.args[1]
    IN /\ st.err = NoError
       /\ gates[st.digit_carry].kind = "Proj"
       /\ \A w \in AddWires(gates, gates[st.digit_carry].xref) : gates[w].q = MaxVal(i) + 1
       /\ gates[st.digit_carry].q = mods[i + 1]
       /\ st.max_carry = MaxCarry(i)
       /\ IF i < Len(mods) - 1
          THEN /\ st.carry_carry # 0
               /\ gates[st.carry_carry].q = (N * (mods[i + 1] - 1)) + MaxCarry(i) + 1
          ELSE st.carry_carry = 0

\* digit i, not the most significant: its carry wire, digit_carry and carry_carry
\* are as claimed, on the plaintext values plain of the wires
CarriesOfDigit(i, st, plain) ==
    LET N == Len(test.args)
        mods == test.args[1]
        carry == gates[st.digit_carry].xref
    IN /\ st.err = NoError
       /\ gates[st.digit_carry].kind = "Proj"
       /\ Cardinality(AddLeaves(gates, carry)) = N + (IF i = 1 THEN 0 ELSE 1)
       /\ \A w \in AddWires(gates, carry) : gates[w].q = MaxVal(i) + 1
       /\ plain[carry] = DigitSum(i) + FullCarry(i - 1)
       /\ plain[carry] <= MaxVal(i)
       /\ gates[st.digit_carry].q = mods[i + 1]
       /\ plain[st.digit_carry] = FullCarry(i) % mods[i + 1]
       /\ st.max_carry = MaxCarry(i)
       /\ IF i < Len(mods) - 1
          THEN /\ st.carry_carry # 0
               /\ gates[st.carry_carry].kind = "Proj"
               /\ gates[st.carry_carry].q = (N * (mods[i + 1] - 1)) + MaxCarry(i) + 1
               /\ plain[st.carry_carry] = FullCarry(i)
               /\ gates[st.carry_carry].xref =
                      (IF MaxCarry(i) < mods[i + 1] THEN st.digit_carry ELSE carry)
          ELSE st.carry_carry = 0

\* on the circuits that mixed_radix_addition built, the carries of every digit but
\* the most significant have the moduli and the plaintext values claimed
MixedRadixCarriesOnValues ==
    GadgetDone("mixed_radix_addition") =>
        LET plain == PlainWires(gates, run.gb_inps, run.ev_inps, Len(gates))
        IN \A i \in 1 .. (Len(test.args[1]) - 1) :
              CarriesOfDigit(i, LoopStateAfter(i), plain)

\* C23: in mixed_radix_addition of N bundles, at every digit i but the most
\* significant, the wires added to form the carry wire have modulus max_val + 1
\* with max_val = N * (q_i - 1) + the previous max_carry; the carry wire holds the
\* sum of the N digits and of the full carry of digit i - 1, at most max_val;
\* digit_carry holds floor(carry / q_i) mod m_(i+1) at modulus m_(i+1); carry_carry
\* holds floor(carry / q_i) at modulus N * (m_(i+1) - 1) + max_carry + 1, in the
\* mod_change branch and in the proj branch
C23_MixedRadixCarries ==
    /\ GadgetReturned("mixed_radix_addition") =>
           \A i \in 1 .. (Len(test.args[1]) - 1) : CarriesBuilt(i, LoopStateAfter(i))
    /\ MixedRadixCarriesOnValues

\* mixed_radix_addition returns a result exactly when max_val and next_max_val fit
\* their u16 at every digit, and panics otherwise
OverflowPanics ==
    GadgetReturned("mixed_radix_addition") => (run.decoded.ok <=> CarriesFitU16)

\* where max_val and next_max_val fit their u16 the sum and the carries are as claimed
MixedRadixWithinU16 ==
    (test.name = "mixed_radix_addition" /\ CarriesFitU16) =>
        (C11_MixedRadixAddition /\ C23_MixedRadixCarries)

\* two bundles over the moduli 40000 and 2: max_val = 2 * 39999 does not fit, and the
\* gadget panics with the sum of the first digits built and no carry wire
MaxValOverflows ==
    /\ GadgetReturned("mixed_radix_addition")
    /\ test.args = <<(<<40000, 2>>), (<<40000, 2>>)>>
    /\ ~run.decoded.ok
    /\ Len(gates) = 5
    /\ gates[5].kind = "Add"

\* two bundles over the moduli 2, 40000 and 2: next_max_val = 2 * 39999 + 1 does not
\* fit, and the gadget panics after the projection of digit_carry
NextMaxValOverflows ==
    /\ GadgetReturned("mixed_radix_addition")
    /\ test.args = <<(<<2, 40000, 2>>), (<<2, 40000, 2>>)>>
    /\ ~run.decoded.ok
    /\ Len(gates) = 11
    /\ gates[11].kind = "Proj"
    /\ gates[11].q = 40000

\* three bundles over the moduli 3, 7, 10, 2, 13, each of the greatest value: the
\* carry of the second digit is kept by mod_change, the carry of the third digit is
\* 2, not below the next modulus, and is kept by a projection of the carry wire
MixedRadixBothBranches ==
    /\ GadgetDone("mixed_radix_addition")
    /\ test.args = [k \in 1 .. 3 |-> <<3, 7, 10, 2, 13>>]
    /\ \A k \in 1 .. 3 : ArgValue(k) = 5459
    /\ MaxVal(3) = 29
    /\ FullCarry(3) = 2
    /\ LET plain == PlainWires(gates, run.gb_inps, run.ev_inps, Len(gates))
           st2 == LoopStateAfter(2)
           st3 == LoopStateAfter(3)
       IN /\ gates[st2.carry_carry].xref = st2.digit_carry
          /\ plain[st2.carry_carry] = 2
          /\ gates[st3.carry_carry].xref = gates[st3.digit_carry].xref
          /\ plain[st3.carry_carry] = 2
          /\ plain[st3.digit_carry] = 0
          /\ plain[gates[st3.digit_carry].xref] = 29

(***************************************************************************)
(* or_many.                                                                *)
(***************************************************************************)
\* the wires or_many was called on
OrManyArgs == bundles[1]

\* what or_many must return: one wire mod 2, 1 if and only if an argument is 1
OrManyCorrect ==
    /\ Len(output_refs) = 1
    /\ gates[output_refs[1]].q = 2
    /\ run.decoded.values = <<IF \E i \in DOMAIN run.ev_inps : run.ev_inps[i] = 1
                              THEN 1 ELSE 0>>

\* how or_many computes it: every argument is projected to modulus b + 1, the
\* projections are summed, the sum is the number of arguments that are 1, and the
\* sum is projected to modulus 2 by a table that maps 0 to 0 and the others to 1
OrManyBuilt ==
    LET b == Len(OrManyArgs)
        z == gates[output_refs[1]].xref
        plain == PlainWires(gates, run.gb_inps, run.ev_inps, Len(gates))
    IN /\ gates[output_refs[1]].kind = "Proj"
       /\ gates[output_refs[1]].tt = [v \in 1 .. (b + 1) |-> IF v = 1 THEN 0 ELSE 1]
       /\ Cardinality(AddLeaves(gates, z)) = b
       /\ \A w \in AddLeaves(gates, z) :
             /\ gates[w].kind = "Proj"
             /\ gates[w].q = b + 1
             /\ gates[w].tt = <<0, 1>>
             /\ gates[w].xref \in {OrManyArgs[i] : i \in DOMAIN OrManyArgs}
       /\ {gates[w].xref : w \in AddLeaves(gates, z)}
             = {OrManyArgs[i] : i \in DOMAIN OrManyArgs}
       /\ gates[z].q = b + 1
       /\ plain[z] = SumSeq(run.ev_inps, Len(run.ev_inps))
       /\ plain[z] <= b

\* C24: for every non-empty slice of b wires mod 2, or_many returns a wire mod 2
\* that is 1 if an argument is 1 and 0 if all are 0: the arguments are projected to
\* modulus b + 1, summed without wrap-around, and the sum is projected to modulus 2
\* with a table that maps 0 to 0 and every other value to 1
C24_OrMany ==
    /\ GadgetReturned("or_many") => run.decoded.ok
    /\ GadgetDone("or_many") => OrManyCorrect /\ OrManyBuilt

\* or_many is right for two wires and more, as long as b + 1 fits the u16 of the
\* modulus of the projections
OrManyWithinU16 ==
    /\ GadgetReturned("or_many") =>
           (run.decoded.ok <=> (Len(OrManyArgs) >= 2 /\ Len(OrManyArgs) < U16Max))
    /\ GadgetDone("or_many") => OrManyCorrect /\ OrManyBuilt

\* on one wire or_many panics in add_many, after the projection of the wire
OrManyOneWire ==
    GadgetReturned("or_many") /\ Len(OrManyArgs) = 1 =>
        /\ ~run.decoded.ok
        /\ run.decoded.err = "panic"
        /\ output_refs = << >>

\* on 65535 wires b as u16 + 1 overflows: or_many panics before a gate is built
OrManyModulusOverflows ==
    /\ GadgetReturned("or_many")
    /\ Len(OrManyArgs) = U16Max
    /\ ~run.decoded.ok
    /\ run.decoded.err = "panic"
    /\ output_refs = << >>
    /\ gates = GatesAtCall

\* or_many returned 1 on sixteen wires of which only the last is 1, and 0 on sixteen
\* wires that are 0
OrManySixteen ==
    /\ GadgetDone("or_many")
    /\ Len(OrManyArgs) = 16
    /\ \/ ArgValue(1) = 32768 /\ run.decoded.values = <<1>>
       \/ ArgValue(1) = 0 /\ run.decoded.values = <<0>>

(***************************************************************************)
(* The oblivious transfer over a reliable stream: the sender and the        *)
(* receiver are two threads, each of which goes on whenever it can.         *)
(***************************************************************************)
SenderNext ==
    SenderWriteS \/ SenderReadR \/ SenderWriteC0 \/ SenderWriteC1 \/ SenderReturn

ReceiverNext ==
    \/ ReceiverReadS
    \/ ReceiverWriteR
    \/ ReceiverReadC0
    \/ ReceiverReadC1
    \/ ReceiverReturn

NextOTReliable ==
    \/ SenderWriteS
    \/ SenderReadR
    \/ SenderWriteC0
    \/ SenderWriteC1
    \/ SenderReturn
    \/ ReceiverReadS
    \/ ReceiverWriteR
    \/ ReceiverReadC0
    \/ ReceiverReadC1
    \/ ReceiverReturn

SpecOTReliable ==
    /\ InitOT
    /\ [][NextOTReliable]_vars
    /\ WF_vars(SenderNext)
    /\ WF_vars(ReceiverNext)

\* a party is in a read and nothing is there to read
SenderBlocked ==
    /\ ot.sender.pc = "loop"
    /\ ot.sender.i < NumTransfers
    /\ ot.to_sender = << >>

ReceiverBlocked ==
    /\ ot.receiver.pc \in {"read_s", "read_c0", "read_c1"}
    /\ ot.to_receiver = << >>

\* the order of the exchange: s is written once and read before anything else; the
\* point of transfer i is written and read before the ciphertexts of transfer i are
\* written, and the receiver writes no further point before it has read both
LockStep ==
    /\ ot.sender.pc # "err"
    /\ ot.receiver.pc # "err"
    /\ Len(ot.to_sender) <= 1
    /\ Len(ot.to_receiver) <= 2
    /\ \A k \in DOMAIN ot.to_receiver :
          ot.to_receiver[k].kind = "pt" =>
              /\ Len(ot.to_receiver) = 1
              /\ ot.receiver.pc = "read_s"
              /\ ot.sender.pc \in {"loop", "ok"}
              /\ ot.sender.i = 0
    /\ ot.sender.pc = "write_s" => ot.receiver.pc = "read_s" /\ ot.to_receiver = << >>
    /\ ot.receiver.pc = "read_s" => ot.to_sender = << >> /\ ot.sender.i = 0
    /\ ot.sender.pc \in {"write_c0", "write_c1"} =>
          /\ ot.receiver.pc \in {"read_c0", "read_c1"}
          /\ ot.receiver.i = ot.sender.i
          /\ Len(ot.receiver.keys) = ot.sender.i + 1
          /\ ot.to_sender = << >>
    /\ ot.to_sender # << >> =>
          /\ ot.sender.pc = "loop"
          /\ ot.receiver.pc = "read_c0"
          /\ ot.receiver.i = ot.sender.i
          /\ ot.to_receiver = << >>
    /\ ot.receiver.i <= ot.sender.i
    /\ ot.sender.i <= ot.receiver.i + 1
    /\ ot.sender.i = ot.receiver.i + 1 =>
          ot.receiver.pc \in {"read_c0", "read_c1"} /\ ot.to_receiver # << >>

\* a ciphertext is written only for a transfer whose point the receiver has written,
\* c0 before c1, and a point is written only after the ciphertexts of the transfers
\* before it were read
WritesInOrder ==
    /\ Len(ot'.to_receiver) > Len(ot.to_receiver) /\ ot.sender.pc # "write_s" =>
          /\ Len(ot.receiver.keys) = ot.sender.i + 1
          /\ ot.sender.pc = "write_c0" =>
                ot'.to_receiver[Len(ot'.to_receiver)].v = ot.sender.c[1]
          /\ ot.sender.pc = "write_c1" =>
                ot'.to_receiver[Len(ot'.to_receiver)].v = ot.sender.c[2]
    /\ Len(ot'.to_sender) > Len(ot.to_sender) =>
          /\ Len(ot.receiver.blocks) = ot.receiver.i
          /\ Len(ot.receiver.keys) = ot.receiver.i
          /\ ot.sender.i = ot.receiver.i
          /\ ot.sender.pc = "loop"

BothOk == ot.sender.pc = "ok" /\ ot.receiver.pc = "ok"

\* C25: a sender with n pairs and a receiver with n choices that run concurrently
\* over a reliable stream exchange their messages in lock-step (the sender writes s
\* once; for every i in order the receiver writes r_i and only then the sender
\* writes c0_i and c1_i), never are both blocked in a read, and both end with Ok
C25_LockStep ==
    /\ [](OTRunning => LockStep /\ ~(SenderBlocked /\ ReceiverBlocked))
    /\ [][WritesInOrder]_vars
    /\ <>[](BothOk /\ ot.receiver.ret.ok /\ ot.to_receiver = << >> /\ ot.to_sender = << >>)

\* two transfers were made and both parties returned Ok: seven calls on the stream
\* each, nothing left unread
C25_Witness ==
    /\ OTRunning
    /\ NumTransfers = 2
    /\ BothOk
    /\ ot.sender.ops = 7
    /\ ot.receiver.ops = 7
    /\ ot.sender.failed = 0
    /\ ot.receiver.failed = 0
    /\ Len(ot.receiver.ret.blocks) = 2
    /\ ot.to_receiver = << >>
    /\ ot.to_sender = << >>

\* the sender waits for the point of the second transfer while the receiver has
\* still to read the two ciphertexts of the first
SenderWaitsForPoint ==
    /\ OTRunning
    /\ SenderBlocked
    /\ ot.sender.i = 1
    /\ ot.receiver.i = 0
    /\ ot.receiver.pc = "read_c0"
    /\ Len(ot.to_receiver) = 2

(***************************************************************************)
(* Properties of garble_iter under SpecIterPull and SpecIterDrop.          *)
(***************************************************************************)
\* the number of messages the computation emits: one for every input, constant,
\* projection and multiplication, and one for every output
EmittedCount ==
    CountKind(gates, {"GarblerInput", "EvaluatorInput", "Constant", "Proj", "Mul"})
        + Len(output_refs)

\* the garbler thread went through the whole computation and returned
GarblerFinished ==
    /\ gb_thread.state = "done"
    /\ Len(wires) = Len(gates)
    /\ garbler.current_output = Len(output_refs)
    /\ Len(msgs) = EmittedCount

\* every message emitted is delivered once, in the order of emission, or is on its way
DeliveredOnce ==
    /\ Len(yielded) <= Len(msgs)
    /\ yielded = SubSeq(msgs, 1, Len(yielded))
    /\ msgs = (yielded \o chan) \o gb_thread.pending

\* next returned None only after the garbler thread returned and every message was
\* delivered
EndsAfterAll ==
    gb_iter.state = "ended" => GarblerFinished /\ yielded = msgs /\ chan = << >>

\* C26: under fair scheduling and with a consumer that keeps pulling from the
\* iterator of garble_iter, the garbler thread runs its computation to the end,
\* every message it emitted is delivered exactly once, and then the iterator ends:
\* next returns None once the thread has finished and dropped its sender; also for
\* computations that emit more than 20 messages
C26_IteratorEnds ==
    /\ [](pc = "stream" => DeliveredOnce /\ EndsAfterAll /\ gb_thread.state # "panicked")
    /\ <>[](GarblerFinished /\ yielded = msgs /\ gb_iter.state = "ended")

\* the sum of twenty-two inputs: twenty-three messages were emitted and delivered,
\* the thread has returned and next has returned None
C26_Witness ==
    /\ pc = "stream"
    /\ test.name = "add_many"
    /\ Len(msgs) = MaxStreamInputs + 1
    /\ Len(msgs) > ChannelCapacity
    /\ yielded = msgs
    /\ gb_thread.state = "done"
    /\ gb_iter.state = "ended"

\* the consumer has dropped the iterator
Dropped == gb_iter.state = "dropped"

\* the garbler thread has a send pending or a message yet to emit
SendAhead ==
    /\ gb_thread.state \in {"running", "sending"}
    /\ gb_thread.state = "sending" \/ Len(msgs) < EmittedCount

\* after the drop no send completes and no message is delivered; the garbler goes on
\* at most to its next send; once the thread has panicked nothing of it changes
AfterDrop ==
    /\ Dropped =>
          /\ chan = << >> /\ chan' = << >>
          /\ yielded' = yielded
          /\ gb_iter' = gb_iter
          /\ gb_thread.state = "sending" =>
                gb_thread' = gb_thread \/ gb_thread'.state = "panicked"
          /\ gb_thread'.state = "panicked" =>
                gb_thread.state \in {"sending", "panicked"}
    /\ gb_thread.state = "panicked" =>
          /\ Dropped
          /\ gb_thread.panic = SendExpect
          /\ UNCHANGED <<gb_thread, garbler, wires, msgs>>

\* C27: if the consumer drops the iterator of garble_iter before the garbler has
\* finished, the garbler thread does not stay blocked: its pending or next send
\* fails, the thread aborts with the panic "garble_iter thread could not send
\* message to iterator" and emits no further message; the garbling is not resumed
C27_DropAborts ==
    /\ [][AfterDrop]_vars
    /\ (Dropped /\ SendAhead) ~> (gb_thread.state = "panicked")
    /\ [](gb_thread.state = "panicked" => [](gb_thread.state = "panicked"))

\* the iterator was dropped while the garbler thread was in send with the channel
\* full; the send failed and the thread panicked with gates left to garble
C27_Witness ==
    /\ pc = "stream"
    /\ Dropped
    /\ gb_thread.state = "panicked"
    /\ gb_thread.panic = SendExpect
    /\ test.name = "add_many"
    /\ Len(msgs) = ChannelCapacity + 1
    /\ yielded = << >>
    /\ Len(wires) < Len(gates)

\* the iterator was dropped with the channel full and the garbler thread in send
DroppedWhileBlocked ==
    /\ pc = "stream"
    /\ Dropped
    /\ gb_thread.state = "sending"
    /\ Len(msgs) = ChannelCapacity + 1
    /\ yielded = << >>

\* the iterator was dropped after the last send; the thread returned without a panic
DroppedAfterLastSend ==
    /\ pc = "stream"
    /\ Dropped
    /\ gb_thread.state = "done"
    /\ Len(msgs) = EmittedCount
    /\ Len(yielded) < Len(msgs)

\* the steps that change the garbler thread, its Garbler or its wires are the steps
\* of the garbler thread, and the thread can take a step exactly when one of its
\* actions has its guard true
ThreadStepsAreThreadActions ==
    /\ [][GarblerThreadStepped <=> GarblerThreadNext]_vars
    /\ [](GarblerThreadEnabled <=>
             /\ pc = "stream"
             /\ \/ gb_thread.state = "running" /\ Len(wires) < Len(gates)
                \/ /\ gb_thread.state = "running"
                   /\ Len(wires) = Len(gates)
                   /\ garbler.current_output <= Len(output_refs)
                \/ gb_thread.state = "sending" /\ sender_send(chan, gb_iter) \in {"Ok", "Err"})

(***************************************************************************)
(* The constants table of the GarbledCircuit that garble returns.          *)
(***************************************************************************)
\* the key of the Constant gate i in the constants table
ConstantKey(i) == <<gates[i].val, gates[i].q>>

\* the table holds, under the key of the Constant gate i, the label of the value of
\* the gate on the gate's own wire
ConstantOfGate(i) ==
    /\ ConstantKey(i) \in DOMAIN result.ev.consts
    /\ result.ev.consts[ConstantKey(i)] = VLabel(i, gates[i].val)

\* the last Constant gate with the key of gate i
LastWithKey(i) ==
    CHOOSE j \in DOMAIN gates :
        /\ gates[j].kind = "Constant"
        /\ ConstantKey(j) = ConstantKey(i)
        /\ \A k \in DOMAIN gates :
              gates[k].kind = "Constant" /\ ConstantKey(k) = ConstantKey(i) => k <= j

\* C28: after garble(C) the constants table of the GarbledCircuit, keyed by (v, q),
\* holds for every Constant gate of C with value v and modulus q the label
\* zero + v * delta_q of that gate's own wire, so that a circuit in which the same
\* constant (v, q) is in more than one Constant gate still evaluates and decodes to
\* C.eval
C28_ConstantsTable ==
    /\ Garbled =>
          \A i \in DOMAIN gates : gates[i].kind = "Constant" => ConstantOfGate(i)
    /\ (pc = "decoded" /\ ~run.tampered /\ ~DistinctConstants) =>
          (run.decoded.ok /\ run.decoded.values = run.should_be)

\* the table holds the label of every Constant gate when no two Constant gates carry
\* the same value and modulus
ConstantsTableDistinct ==
    Garbled /\ DistinctConstants =>
        \A i \in DOMAIN gates : gates[i].kind = "Constant" => ConstantOfGate(i)

\* the table holds one label for every key, that of the last Constant gate with the
\* key; the wires of the Constant gates with one key are not the same wire
ConstantsTableLast ==
    Garbled =>
        \A i \in DOMAIN gates :
            gates[i].kind = "Constant" =>
                /\ ConstantOfGate(LastWithKey(i))
                /\ LastWithKey(i) # i => wires[i] # wires[LastWithKey(i)]

\* a circuit with an evaluator input, a constant and their sum, as in the test
\* classic::constants, was garbled, evaluated and decoded
ConstantAdded ==
    /\ pc = "decoded"
    /\ ~run.tampered
    /\ Len(gates) = 3
    /\ gates[1].kind = "EvaluatorInput"
    /\ gates[2].kind = "Constant"
    /\ gates[2].val = 2
    /\ gates[3].kind = "Add"
    /\ output_refs = <<3>>
    /\ run.ev_inps = <<2>>
    /\ run.decoded.values = <<1>>
    /\ ConstantOfGate(2)

(***************************************************************************)
(* The parallel server: main of run_server.rs, the threads it spawns and   *)
(* joins, and the calls of prepare_files, server_thread, join_aggregates.  *)
(***************************************************************************)
\* the largest nthread of the configuration; the most file names a server thread
\* pushes on its path
MaxThreads == 3
MaxPushes == 1

\* the path of main after path.pop(); path.push("server"), and the address read from
\* the configuration
ServerPath == <<"popsicle", "examples", "match-compute-parallel", "server">>
ServerAddress == "address"

\* path.clone(), address.clone()
Clone(x) == x

\* what a function that is lent the path by &mut can leave in it when it returns or
\* panics: the path as it was, a name pushed on it, or its last name popped
PathChanges(p, name) == {p, Append(p, name), SubSeq(p, 1, Len(p) - 1)}

\* the closure handed to thread::spawn, with what it has moved into it
ThreadNew(i, path_thread, address_thread) ==
    [state |-> "spawned", index |-> i, path |-> path_thread, address |-> address_thread,
     calls |-> 0, joined |-> FALSE]

\* thread.join() returns: the thread has returned (Ok) or has panicked (Err)
Joinable_Detached(t) == TRUE
Joinable(t) == t.state \in {"returned", "panicked"}

\* main from line 86 on, with nthread read from the configuration
ServerNew(nthread) ==
    [state |-> "running", pc |-> "prepare", nthread |-> nthread, path |-> ServerPath,
     address |-> ServerAddress, prepared |-> FALSE, i |-> 0, handle |-> << >>, j |-> 0,
     aggregated |-> FALSE]

InitServer ==
    /\ pc = "server"
    /\ test = [name |-> "run_server", Q |-> 0]
    /\ gates = << >>
    /\ output_refs = << >>
    /\ garbler = NoGarbler
    /\ wires = << >>
    /\ msgs = << >>
    /\ collected = NoCollected
    /\ result = NoResult
    /\ run = NoRun
    /\ gb_thread = NoThread
    /\ chan = << >>
    /\ yielded = << >>
    /\ routing = NoRouting
    /\ ev = NoEvaluator
    /\ bundles = << >>
    /\ ot = NoTransfer
    /\ aesrng = NoAesRng
    /\ gb_iter = NoIter
    /\ \E nthread \in 0 .. MaxThreads : server = ServerNew(nthread)

serverFrame == <<gates, output_refs, pc, garbler, wires, msgs, collected, result, run,
                 test, gb_thread, chan, yielded, routing, ev, bundles, ot, aesrng,
                 gb_iter>>

ServerRunning == pc = "server" /\ server.state = "running"

\* prepare_files(&mut path, &address, nthread, &ids, &payloads) returns, with the
\* path as it has left it
MainPrepareFiles ==
    /\ ServerRunning
    /\ server.pc = "prepare"
    /\ \E p \in PathChanges(server.path, "prepared") :
          server' = [server EXCEPT !.prepared = TRUE, !.pc = "spawn", !.path = p]
    /\ UNCHANGED serverFrame

\* prepare_files panics, and main with it
MainPrepareFilesPanics ==
    /\ ServerRunning
    /\ server.pc = "prepare"
    /\ \E p \in PathChanges(server.path, "prepared") :
          server' = [server EXCEPT !.pc = "panicked", !.path = p]
    /\ UNCHANGED serverFrame

\* one round of for i in 0..nthread: the clones and handle.push(thread::spawn(..))
MainSpawn ==
    /\ ServerRunning
    /\ server.pc = "spawn"
    /\ server.i < server.nthread
    /\ server' = [server EXCEPT
                     !.handle = Append(@, ThreadNew(server.i, Clone(server.path),
                                                    Clone(server.address))),
                     !.i = @ + 1]
    /\ UNCHANGED serverFrame

\* the loop over 0..nthread ends
MainSpawnEnd ==
    /\ ServerRunning
    /\ server.pc = "spawn"
    /\ server.i = server.nthread
    /\ server' = [server EXCEPT !.pc = "join"]
    /\ UNCHANGED serverFrame

\* one round of for thread in handle: let _ = thread.join()
MainJoin ==
    /\ ServerRunning
    /\ server.pc = "join"
    /\ server.j < Len(server.handle)
    /\ Joinable(server.handle[server.j + 1])
    /\ server' = [server EXCEPT !.handle[server.j + 1].joined = TRUE, !.j = @ + 1]
    /\ UNCHANGED serverFrame

\* the loop over handle has ended: join_aggregates(&mut path, &address, nthread)
\* returns, with the path as it has left it, and main returns
MainJoinAggregates ==
    /\ ServerRunning
    /\ server.pc = "join"
    /\ server.j = Len(server.handle)
    /\ \E p \in PathChanges(server.path, "aggregates") :
          server' = [server EXCEPT !.aggregated = TRUE, !.pc = "done", !.path = p]
    /\ UNCHANGED serverFrame

\* join_aggregates is called and panics, and main with it
MainJoinAggregatesPanics ==
    /\ ServerRunning
    /\ server.pc = "join"
    /\ server.j = Len(server.handle)
    /\ \E p \in PathChanges(server.path, "aggregates") :
          server' = [server EXCEPT !.aggregated = TRUE, !.pc = "panicked", !.path = p]
    /\ UNCHANGED serverFrame

\* the main thread has not ended, and the thread k with it
ThreadAlive(k) ==
    /\ ServerRunning
    /\ server.pc \in {"spawn", "join"}
    /\ k \in DOMAIN server.handle

\* the thread k starts: its closure calls server_thread(&mut path_thread,
\* &address_thread, i)
ServerThreadStart(k) ==
    /\ ThreadAlive(k)
    /\ server.handle[k].state = "spawned"
    /\ server' = [server EXCEPT !.handle[k].state = "running",
                                !.handle[k].calls = @ + 1]
    /\ UNCHANGED serverFrame

\* server_thread pushes a file name on the path it was given
ServerThreadPush(k) ==
    /\ ThreadAlive(k)
    /\ server.handle[k].state = "running"
    /\ Len(server.handle[k].path) < Len(server.path) + MaxPushes
    /\ server' = [server EXCEPT !.handle[k].path = Append(@, "file")]
    /\ UNCHANGED serverFrame

\* server_thread returns, and the closure with it
ServerThreadReturn(k) ==
    /\ ThreadAlive(k)
    /\ server.handle[k].state = "running"
    /\ server' = [server EXCEPT !.handle[k].state = "returned"]
    /\ UNCHANGED serverFrame

\* server_thread panics
ServerThreadPanic(k) ==
    /\ ThreadAlive(k)
    /\ server.handle[k].state = "running"
    /\ server' = [server EXCEPT !.handle[k].state = "panicked"]
    /\ UNCHANGED serverFrame

NextServer ==
    \/ MainPrepareFiles
    \/ MainPrepareFilesPanics
    \/ MainSpawn
    \/ MainSpawnEnd
    \/ MainJoin
    \/ MainJoinAggregates
    \/ MainJoinAggregatesPanics
    \/ \E k \in 1 .. MaxThreads : ServerThreadStart(k)
    \/ \E k \in 1 .. MaxThreads : ServerThreadPush(k)
    \/ \E k \in 1 .. MaxThreads : ServerThreadReturn(k)
    \/ \E k \in 1 .. MaxThreads : ServerThreadPanic(k)

SpecServer == InitServer /\ [][NextServer]_vars

(***************************************************************************)
(* The order of main of the parallel server.                               *)
(***************************************************************************)
\* s begins with p
IsPrefix(p, s) == Len(p) <= Len(s) /\ SubSeq(s, 1, Len(p)) = p

\* prepare_files has returned before a thread is spawned
PreparedBeforeSpawn == server.handle # << >> => server.prepared

\* no more than nthread threads are spawned, and nthread of them once the loop is over
SpawnsNThreads ==
    /\ Len(server.handle) = server.i
    /\ server.i <= server.nthread
    /\ server.pc \in {"join", "done"} => Len(server.handle) = server.nthread

\* the thread of round i calls server_thread at most once, with the index i and with
\* the address; until join_aggregates is called the path of main is the one that
\* prepare_files left, and the path of every thread began as that path
OwnArguments ==
    /\ ~server.prepared /\ server.pc = "prepare" => server.path = ServerPath
    /\ \A k \in DOMAIN server.handle :
          LET t == server.handle[k]
          IN  /\ t.index = k - 1
              /\ t.address = server.address
              /\ t.calls = (IF t.state = "spawned" THEN 0 ELSE 1)
              /\ ~server.aggregated =>
                     /\ IsPrefix(server.path, t.path)
                     /\ t.state = "spawned" => t.path = server.path

\* the path and the address of a thread are copies: a thread is spawned with the path
\* and the address main has at that moment, main changes its path only inside
\* prepare_files and join_aggregates, what a thread pushes changes neither the path
\* of main nor the record of another thread, and what main does to its path changes
\* the path of no thread
OwnCopies ==
    /\ Len(server'.handle) = Len(server.handle) + 1 =>
           /\ server'.handle[Len(server'.handle)] =
                  ThreadNew(Len(server.handle), server.path, server.address)
           /\ server'.path = server.path
           /\ SubSeq(server'.handle, 1, Len(server.handle)) = server.handle
    /\ server'.path # server.path =>
           /\ \/ server.pc = "prepare"
              \/ server.pc = "join" /\ server.j = server.nthread /\ server'.aggregated
           /\ \A l \in DOMAIN server.handle : server'.handle[l].path = server.handle[l].path
    /\ \A k \in DOMAIN server.handle :
           (k \in DOMAIN server'.handle
               /\ server'.handle[k].path # server.handle[k].path) =>
                  /\ server'.path = server.path
                  /\ \A l \in DOMAIN server.handle \ {k} :
                        server'.handle[l] = server.handle[l]

\* the threads are joined in the order of handle, each after it has ended
JoinedInOrder ==
    \A k \in DOMAIN server.handle :
        /\ server.handle[k].joined <=> k <= server.j
        /\ server.handle[k].joined => server.handle[k].state \in {"returned", "panicked"}

\* join_aggregates is called after every one of the nthread threads was joined
AggregatesAfterJoins ==
    server.aggregated =>
        /\ server.j = server.nthread
        /\ \A k \in 1 .. server.nthread :
              /\ k \in DOMAIN server.handle
              /\ server.handle[k].joined
              /\ server.handle[k].calls = 1
              /\ server.handle[k].state \in {"returned", "panicked"}

\* C29: in main of the parallel server prepare_files has returned before any server
\* thread is spawned, exactly nthread threads are spawned, the thread i runs
\* server_thread once with the index i and with its own copies of the path and the
\* address, and join_aggregates is called only after every one of the nthread threads
\* has been joined, the threads that ended by a panic among them
C29_ServerMain ==
    /\ [](ServerRunning =>
             /\ PreparedBeforeSpawn
             /\ SpawnsNThreads
             /\ OwnArguments
             /\ JoinedInOrder
             /\ AggregatesAfterJoins)
    /\ [][ServerRunning => OwnCopies]_vars

\* join_aggregates was called after two threads or more, one that returned and one
\* that panicked; prepare_files had pushed a name on the path before the threads
\* were spawned, and a thread had pushed a name on its copy
C29_Witness ==
    /\ ServerRunning
    /\ server.aggregated
    /\ server.pc = "done"
    /\ server.nthread >= 2
    /\ \E k \in DOMAIN server.handle : server.handle[k].state = "panicked"
    /\ \E k \in DOMAIN server.handle :
          /\ server.handle[k].state = "returned"
          /\ server.handle[k].path = Append(Append(ServerPath, "prepared"), "file")
    /\ \E k \in DOMAIN server.handle :
          server.handle[k].path = Append(ServerPath, "prepared")

\* main waits in join while the thread it joins is running
MainWaitsInJoin ==
    /\ ServerRunning
    /\ server.pc = "join"
    /\ server.j < Len(server.handle)
    /\ server.handle[server.j + 1].state = "running"
    /\ ~ENABLED MainJoin

\* with nthread = 0 no thread is spawned and join_aggregates is called
NoThreads ==
    /\ ServerRunning
    /\ server.nthread = 0
    /\ server.aggregated
    /\ server.handle = << >>

\* prepare_files panicked: no thread was spawned
PreparePanicked ==
    ServerRunning /\ server.pc = "panicked" /\ ~server.prepared =>
        server.handle = << >> /\ ~server.aggregated

\* join_aggregates panicked, after every thread was joined, and had popped the last
\* name of the path
AggregatesPanicked ==
    /\ ServerRunning
    /\ server.pc = "panicked"
    /\ server.aggregated
    /\ server.nthread = MaxThreads
    /\ \A k \in DOMAIN server.handle : server.handle[k].joined
    /\ IsPrefix(server.path, ServerPath)
    /\ server.path # ServerPath

\* prepare_files left the path changed, and the threads were spawned with the path
\* it left
PreparedPathCloned ==
    /\ ServerRunning
    /\ server.pc = "join"
    /\ server.path # ServerPath
    /\ server.handle # << >>
    /\ \A k \in DOMAIN server.handle : IsPrefix(server.path, server.handle[k].path)

=============================================================================
